---- MODULE Spec2Model ----
(***************************************************************************)
(* Row driver of the TIA project text translator: iterateAndTranslate of   *)
(* src/main.go (the variant with quick mode and underscore reuse), the     *)
(* row driver with the pattern cache listed in src/README.md, and the      *)
(* helper functions of both applied to texts on their own.                 *)
(*                                                                         *)
(* A Go string is modelled as a sequence of one-character strings, so that *)
(* TrimSpace, SplitN, Split, Join, Atoi, EqualFold, ToLower, Trim and the  *)
(* alarm regular expression are computed on the characters.                *)
(***************************************************************************)
EXTENDS Integers, Sequences, FiniteSets, TLC

(***************************************************************************)
(* Bounds of the model.                                                    *)
(***************************************************************************)
\* number of data rows below the header row
MaxDataRows == 2
\* number of data rows of a run of the pattern-cache variant
MaxCacheRows == 3
\* length of the texts handed to the underscore helpers
MaxPatternLen == 5
\* number of pieces a text handed to normalizeText is made of
MaxPieces == 3
\* pairs of data rows in a file main is followed on
MaxRowPairs == 1

(***************************************************************************)
(* Characters.                                                             *)
(***************************************************************************)
Digits == {"0", "1", "2", "3", "4", "5", "6", "7", "8", "9"}

\* unicode.IsSpace restricted to the characters of the model
IsSpace(c) == c \in {" ", "\t", "\n", "\r"}

\* characters whose UTF-8 encoding takes two bytes; "Ae" stands for the
\* letter A with diaeresis
TwoByteChars == {"Ae"}

\* unicode.ToLower on one character
LowerChar(c) ==
    CASE c = "A" -> "a"
      [] c = "B" -> "b"
      [] c = "E" -> "e"
      [] c = "L" -> "l"
      [] c = "M" -> "m"
      [] c = "O" -> "o"
      [] c = "R" -> "r"
      [] c = "T" -> "t"
      [] c = "X" -> "x"
      [] c = "Y" -> "y"
      [] c = "Z" -> "z"
      [] OTHER -> c

(***************************************************************************)
(* Functions of package strings and strconv.                               *)
(***************************************************************************)
\* len(s): the number of bytes of s
RECURSIVE ByteLen(_)
ByteLen(s) ==
    IF s = <<>> THEN 0
    ELSE (IF Head(s) \in TwoByteChars THEN 2 ELSE 1) + ByteLen(Tail(s))

RECURSIVE TrimLeftSpace(_)
TrimLeftSpace(s) ==
    IF s # <<>> /\ IsSpace(Head(s)) THEN TrimLeftSpace(Tail(s)) ELSE s

RECURSIVE TrimRightSpace(_)
TrimRightSpace(s) ==
    IF s # <<>> /\ IsSpace(s[Len(s)])
    THEN TrimRightSpace(SubSeq(s, 1, Len(s) - 1))
    ELSE s

\* strings.TrimSpace
TrimSpace(s) == TrimRightSpace(TrimLeftSpace(s))

RECURSIVE TrimLeftQuote(_)
TrimLeftQuote(s) ==
    IF s # <<>> /\ Head(s) = "\"" THEN TrimLeftQuote(Tail(s)) ELSE s

RECURSIVE TrimRightQuote(_)
TrimRightQuote(s) ==
    IF s # <<>> /\ s[Len(s)] = "\""
    THEN TrimRightQuote(SubSeq(s, 1, Len(s) - 1))
    ELSE s

\* strings.Trim(s, `"`)
TrimQuotes(s) == TrimRightQuote(TrimLeftQuote(s))

\* strings.ToLower
ToLower(s) == [k \in 1..Len(s) |-> LowerChar(s[k])]

\* strings.EqualFold
EqualFold(s, t) == ToLower(s) = ToLower(t)

\* strings.Contains(s, c) for a one-character separator c
Contains(s, c) == \E k \in 1..Len(s) : s[k] = c

\* strings.HasPrefix, strings.HasSuffix
HasPrefix(s, p) == Len(s) >= Len(p) /\ SubSeq(s, 1, Len(p)) = p
HasSuffix(s, p) == Len(s) >= Len(p) /\ SubSeq(s, Len(s) - Len(p) + 1, Len(s)) = p

\* index of the first occurrence of character c in s, 0 when there is none
RECURSIVE IndexFrom(_, _, _)
IndexFrom(s, c, k) ==
    IF k > Len(s) THEN 0
    ELSE IF s[k] = c THEN k
    ELSE IndexFrom(s, c, k + 1)

Index(s, c) == IndexFrom(s, c, 1)

\* strings.SplitN(s, c, 2)
SplitN2(s, c) ==
    LET k == Index(s, c) IN
    IF k = 0 THEN <<s>>
    ELSE <<SubSeq(s, 1, k - 1), SubSeq(s, k + 1, Len(s))>>

\* strings.Split(s, c)
RECURSIVE Split(_, _)
Split(s, c) ==
    LET k == Index(s, c) IN
    IF k = 0 THEN <<s>>
    ELSE <<SubSeq(s, 1, k - 1)>> \o Split(SubSeq(s, k + 1, Len(s)), c)

\* strings.Join(parts, c)
RECURSIVE Join(_, _)
Join(parts, c) ==
    IF parts = <<>> THEN <<>>
    ELSE IF Len(parts) = 1 THEN parts[1]
    ELSE parts[1] \o <<c>> \o Join(Tail(parts), c)

\* the decimal digits of the largest int, 2^63 - 1, and of the magnitude of
\* the smallest, 2^63 (int has 64 bits in the released build)
MaxIntDigits ==
    <<"9", "2", "2", "3", "3", "7", "2", "0", "3", "6",
      "8", "5", "4", "7", "7", "5", "8", "0", "7">>
MinIntDigits ==
    <<"9", "2", "2", "3", "3", "7", "2", "0", "3", "6",
      "8", "5", "4", "7", "7", "5", "8", "0", "8">>

DigitVal(c) ==
    CASE c = "0" -> 0
      [] c = "1" -> 1
      [] c = "2" -> 2
      [] c = "3" -> 3
      [] c = "4" -> 4
      [] c = "5" -> 5
      [] c = "6" -> 6
      [] c = "7" -> 7
      [] c = "8" -> 8
      [] c = "9" -> 9

RECURSIVE TrimLeftZeros(_)
TrimLeftZeros(d) ==
    IF d # <<>> /\ Head(d) = "0" THEN TrimLeftZeros(Tail(d)) ELSE d

\* d <= m for two digit strings of the same length
RECURSIVE DigitsLE(_, _)
DigitsLE(d, m) ==
    IF d = <<>> THEN TRUE
    ELSE IF DigitVal(Head(d)) < DigitVal(Head(m)) THEN TRUE
    ELSE IF DigitVal(Head(d)) > DigitVal(Head(m)) THEN FALSE
    ELSE DigitsLE(Tail(d), Tail(m))

\* the number written by the digits d is at most the one written by limit
InIntRange(d, limit) ==
    LET v == TrimLeftZeros(d) IN
    \/ Len(v) < Len(limit)
    \/ Len(v) = Len(limit) /\ DigitsLE(v, limit)

\* strconv.Atoi(s) returns no error: an optional sign, then one or more
\* decimal digits writing a number within the range of int
AtoiOk(s) ==
    LET neg  == s # <<>> /\ s[1] = "-"
        body == IF s # <<>> /\ s[1] \in {"+", "-"} THEN Tail(s) ELSE s
    IN  /\ body # <<>>
        /\ \A k \in 1..Len(body) : body[k] \in Digits
        /\ InIntRange(body, IF neg THEN MinIntDigits ELSE MaxIntDigits)

(***************************************************************************)
(* Pattern helpers of main.go.                                             *)
(***************************************************************************)
\* parts[len(parts)-1]
Last(parts) == parts[Len(parts)]

\* mutant of hasUnderscoreNumberPattern: the first part is parsed
hasUnderscoreNumberPatternFirst(text) ==
    LET parts == Split(text, "_") IN
    IF Len(parts) < 2 THEN FALSE
    ELSE AtoiOk(parts[1])

hasUnderscoreNumberPattern(text) ==
    LET parts == Split(text, "_") IN
    IF Len(parts) < 2 THEN FALSE
    ELSE AtoiOk(Last(parts))

\* mutant of extractBaseAndSuffix: the split is at the first underscore
extractBaseAndSuffixFirst(text) ==
    LET parts == Split(text, "_") IN
    IF Len(parts) < 2 THEN [base |-> text, suffix |-> <<>>]
    ELSE [base   |-> parts[1],
          suffix |-> Join(Tail(parts), "_")]

\* the pair (base, suffix) as a record
extractBaseAndSuffix(text) ==
    LET parts == Split(text, "_") IN
    IF Len(parts) < 2 THEN [base |-> text, suffix |-> <<>>]
    ELSE [base   |-> Join(SubSeq(parts, 1, Len(parts) - 1), "_"),
          suffix |-> Last(parts)]

\* s[a..b] is a run of white space (\s), of decimal digits (\d)
AllSpace(s, a, b) == \A k \in a..b : IsSpace(s[k])
AllDigits(s, a, b) == \A k \in a..b : s[k] \in Digits

\* meaninglessAlarmRegex.MatchString(text): (?i)^alarm\s+\d+:\s*$
meaninglessAlarmRegex(text) ==
    LET n == Len(text) IN
    /\ n >= 5
    /\ ToLower(SubSeq(text, 1, 5)) = <<"a", "l", "a", "r", "m">>
    /\ \E sEnd \in 6..n : \E dEnd \in (sEnd + 1)..n :
         /\ AllSpace(text, 6, sEnd)
         /\ AllDigits(text, sEnd + 1, dEnd)
         /\ dEnd + 1 <= n
         /\ text[dEnd + 1] = ":"
         /\ AllSpace(text, dEnd + 2, n)

\* mutant of isPlaceholder: the alarm expression is not consulted
isPlaceholderNoAlarm(text) ==
    \/ HasPrefix(text, <<"#", "#">>) /\ HasSuffix(text, <<"#", "#">>)
    \/ HasPrefix(text, <<"#">>) /\ HasSuffix(text, <<"#">>) /\ ByteLen(text) > 1
    \/ HasPrefix(text, <<"@">>) /\ HasSuffix(text, <<"@">>)

isPlaceholder(text) ==
    \/ HasPrefix(text, <<"#", "#">>) /\ HasSuffix(text, <<"#", "#">>)
    \/ HasPrefix(text, <<"#">>) /\ HasSuffix(text, <<"#">>) /\ ByteLen(text) > 1
    \/ HasPrefix(text, <<"@">>) /\ HasSuffix(text, <<"@">>)
    \/ meaninglessAlarmRegex(text)

(***************************************************************************)
(* Pattern helpers of the pattern-cache variant (the program listed in     *)
(* README.md).                                                             *)
(***************************************************************************)
\* the placeholder "{{N}}"
TokenN == <<"{", "{", "N", "}", "}">>

\* length of the longest run of digits s starts with: the match of numRegex,
\* \d+, at the start of s
RECURSIVE DigitPrefixLen(_)
DigitPrefixLen(s) ==
    IF s # <<>> /\ Head(s) \in Digits THEN 1 + DigitPrefixLen(Tail(s)) ELSE 0

\* numRegex.FindAllString(s, -1): the matches from left to right
RECURSIVE FindAllString(_)
FindAllString(s) ==
    IF s = <<>> THEN <<>>
    ELSE LET n == DigitPrefixLen(s) IN
         IF n > 0
         THEN <<SubSeq(s, 1, n)>> \o FindAllString(SubSeq(s, n + 1, Len(s)))
         ELSE FindAllString(Tail(s))

\* numRegex.ReplaceAllString(s, repl)
RECURSIVE ReplaceAllString(_, _)
ReplaceAllString(s, repl) ==
    IF s = <<>> THEN <<>>
    ELSE LET n == DigitPrefixLen(s) IN
         IF n > 0
         THEN repl \o ReplaceAllString(SubSeq(s, n + 1, Len(s)), repl)
         ELSE <<Head(s)>> \o ReplaceAllString(Tail(s), repl)

\* s with every single digit replaced by repl
RECURSIVE ReplaceEachDigit(_, _)
ReplaceEachDigit(s, repl) ==
    IF s = <<>> THEN <<>>
    ELSE (IF Head(s) \in Digits THEN repl ELSE <<Head(s)>>)
         \o ReplaceEachDigit(Tail(s), repl)

\* mutant of normalizeText: the expression is \d, one placeholder per digit
normalizeTextPerDigit(text) ==
    [pattern |-> ReplaceEachDigit(text, TokenN),
     numbers |-> FindAllString(text)]

\* the pair (normalized, numbers) as a record
normalizeText(text) ==
    [pattern |-> ReplaceAllString(text, TokenN),
     numbers |-> FindAllString(text)]

\* strings.Count(s, sub): the non-overlapping occurrences of sub in s
RECURSIVE Count(_, _)
Count(s, sub) ==
    IF Len(s) < Len(sub) THEN 0
    ELSE IF HasPrefix(s, sub) THEN 1 + Count(SubSeq(s, Len(sub) + 1, Len(s)), sub)
    ELSE Count(Tail(s), sub)

\* strings.Replace(s, old, new, 1): the first occurrence of old replaced
RECURSIVE ReplaceFirst(_, _, _)
ReplaceFirst(s, old, new) ==
    IF Len(s) < Len(old) THEN s
    ELSE IF HasPrefix(s, old) THEN new \o SubSeq(s, Len(old) + 1, Len(s))
    ELSE <<Head(s)>> \o ReplaceFirst(Tail(s), old, new)

\* mutant of Substitute: the numbers are taken from the last to the first
RECURSIVE SubstituteReversed(_, _)
SubstituteReversed(translatedPattern, numbers) ==
    IF numbers = <<>> THEN translatedPattern
    ELSE SubstituteReversed(
             ReplaceFirst(translatedPattern, TokenN, numbers[Len(numbers)]),
             SubSeq(numbers, 1, Len(numbers) - 1))

\* for _, num := range numbers { temp = strings.Replace(temp, "{{N}}", num, 1) }
RECURSIVE Substitute(_, _)
Substitute(translatedPattern, numbers) ==
    IF numbers = <<>> THEN translatedPattern
    ELSE Substitute(ReplaceFirst(translatedPattern, TokenN, Head(numbers)),
                    Tail(numbers))

(***************************************************************************)
(* The Translation Port: translateText and the backend behind it.          *)
(***************************************************************************)
\* the backend's rendering of one character in the target language
TrChar(c) ==
    CASE c = "A" -> "X"
      [] c = "B" -> "Y"
      [] c = "a" -> "Ae"
      [] c = "b" -> "c"
      [] OTHER -> c

\* a reply that keeps the structure of the text ('#', '_', digits, spaces)
Tr(text) == [k \in 1..Len(text) |-> TrChar(text[k])]

\* a reply that keeps no '#' and no '_' of the text
Flat == <<"Z">>

\* resp.Choices[0].Message.Content: what the backend may answer for text
Replies(text) == {Tr(text), <<"\"">> \o Tr(text) \o <<"\"">>, Flat}

\* results of translateText(client, text, ...): an error, or the reply with
\* the surrounding quotes trimmed
translateText(text) ==
    {[err |-> TRUE, val |-> <<>>]}
    \cup {[err |-> FALSE, val |-> TrimQuotes(r)] : r \in Replies(text)}

\* what the backend may answer in the pattern-cache variant: the digits
\* kept, no digit kept, the digits kept and a literal "{{N}}" added
CacheReplies(text) == {Tr(text), Flat, Tr(text) \o TokenN}

\* results of translateText of the pattern-cache variant: an error (the
\* 5-second timeout included), or the reply as it is
translateTextCached(text) ==
    {[err |-> TRUE, val |-> <<>>]}
    \cup {[err |-> FALSE, val |-> r] : r \in CacheReplies(text)}

(***************************************************************************)
(* The rows handed to iterateAndTranslate.                                 *)
(***************************************************************************)
HeaderRow == << <<"E", "N">>, <<"D", "E">> >>

\* source texts of the data rows
SrcHashNum    == <<" ", "A", "#", " ", "2", " ">>
SrcHashWord   == <<"A", "#", "b">>
SrcHashUnder  == <<"A", "#", "_", "1">>
SrcUnder1     == <<"B", "_", "1">>
SrcUnder2     == <<"B", "_", "2">>
SrcPlain      == <<"a", "b", "c">>
SrcDefault    == <<" ", "T", "E", "x", "t">>
SrcPlHash     == <<"#", "A", "#">>
SrcPlHash2    == <<"#", "#">>
SrcPlAt       == <<"@", "b", "@">>
SrcPlAlarm    == <<"A", "l", "a", "r", "m", " ", "1", ":", " ">>
SrcShort      == <<"a", "b">>
SrcNumeral    == <<"1", "2", "3">>

\* target cells found in the sheet before the run
TgtEmpty      == <<>>
TgtDefault    == <<"T", "e", "x", "t">>
TgtQuotedUp   == <<"\"", "T", "E", "X", "T", "\"">>
TgtQuotedSp   == <<"\"", " ", "t", "e", "x", "t", " ", "\"">>
TgtOld        == <<" ", "O", "l", "d">>

\* rows with a source cell only, rows with both cells, and the empty row
DataRows ==
    {<<s>> : s \in {SrcHashNum, SrcHashWord, SrcHashUnder, SrcUnder1,
                    SrcUnder2, SrcDefault, SrcPlHash2, SrcPlAt, SrcPlAlarm}}
    \cup {<<SrcPlain, t>> :
            t \in {TgtEmpty, TgtDefault, TgtQuotedUp, TgtQuotedSp, TgtOld}}
    \cup {<<s, TgtOld>> : s \in {SrcPlHash, SrcShort, SrcNumeral}}
    \cup {<< >>}

\* (sourceIndex, targetIndex) as chosen in the setup form: two columns, or
\* the same column twice
ColumnChoices == {<<0, 1>>, <<0, 0>>}

TranslationModes == {"full", "quick"}

\* source texts at the edges of the copy classes
SrcBang       == <<"!", "a", "b", "c">>
SrcBlank      == <<" ", " ">>
SrcTwoByte    == <<"a", "Ae">>
SrcDigit      == <<"7">>
SrcSigned     == <<"-", "1", "2">>
SrcHuge       ==
    <<"9", "9", "9", "9", "9", "9", "9", "9", "9", "9",
      "9", "9", "9", "9", "9", "9", "9", "9", "9", "9">>

\* rows for the copy classes: the rows that take the loop through every
\* branch, and the rows at the edges of the classes
ClassRows ==
    {<<SrcHashNum>>, <<SrcHashWord>>, <<SrcUnder1>>, <<SrcPlain, TgtOld>>,
     <<SrcDefault>>, << >>}
    \cup {<<s, TgtOld>> : s \in {SrcBang, SrcBlank, SrcShort, SrcNumeral}}
    \cup {<<s>> : s \in {SrcPlHash2, SrcTwoByte, SrcDigit, SrcSigned, SrcHuge}}

\* source texts of the pattern-cache variant
SrcAlarm12    == <<"a", " ", "1", "2">>
SrcAlarm34    == <<"a", " ", "3", "4">>
SrcAlarm1     == <<"a", " ", "1">>
SrcTwoNums    == <<"a", "1", "b", "2">>
SrcWord       == <<"a", "b", "c", "d">>
SrcNumeral4   == <<"1", "2", "3", "4">>
SrcLiteral    == <<"{", "{", "N", "}", "}", "1">>

CacheRows ==
    {<<s>> : s \in {SrcAlarm12, SrcAlarm34, SrcAlarm1, SrcTwoNums, SrcWord,
                    SrcNumeral4, SrcPlAlarm, SrcLiteral}}
    \cup {<< >>}

\* the column pair of a run of the pattern-cache variant
CacheColumnChoices == {<<0, 1>>}

\* all texts of at most n characters over the characters chars
TextsOver(chars, n) == UNION {[1..k -> chars] : k \in 0..n}

\* texts handed to hasUnderscoreNumberPattern and extractBaseAndSuffix
PatternChars == {"a", "_", "1", "-"}
PatternTexts == TextsOver(PatternChars, MaxPatternLen)

\* texts handed to normalizeText: up to MaxPieces pieces in a row
RECURSIVE Flatten(_)
Flatten(ss) == IF ss = <<>> THEN <<>> ELSE Head(ss) \o Flatten(Tail(ss))

NormPieces ==
    {<<"a">>, <<" ">>, <<"1">>, <<"2", "3">>, <<"{">>, <<"N", "}">>, TokenN}
NormTexts == {Flatten(ps) : ps \in TextsOver(NormPieces, MaxPieces)}

(***************************************************************************)
(* The functions main calls before the run: getAPIKey, validateAPIKey,     *)
(* and the naming of the input and output files.                           *)
(***************************************************************************)
\* values of the OPENAI_API_KEY environment variable ("" when it is not set)
EnvValues == {<<>>, <<"e">>, <<" ">>}

\* api-key.txt next to the executable: absent, there but not readable, or
\* readable with its content
KeyFiles ==
    {[stat |-> FALSE, read |-> FALSE, content |-> <<>>],
     [stat |-> TRUE,  read |-> FALSE, content |-> <<>>]}
    \cup {[stat |-> TRUE, read |-> TRUE, content |-> c] :
            c \in {<<>>, <<" ", "\n">>, <<" ", "f", "\n">>}}

\* the masked prompt: the form is aborted, or returns what was typed
PromptAnswers ==
    {[err |-> TRUE, value |-> <<>>]}
    \cup {[err |-> FALSE, value |-> v] : v \in {<<>>, <<"p">>, <<" ">>}}

\* what getAPIKey finds around the process; executable is whether
\* os.Executable succeeds
Environments ==
    [envKey : EnvValues, executable : BOOLEAN, keyFile : KeyFiles,
     prompt : PromptAnswers]

\* mutant of getAPIKey: the key file is looked at before the environment
getAPIKeyFileFirst(e) ==
    IF e.executable /\ e.keyFile.stat /\ e.keyFile.read
       /\ TrimSpace(e.keyFile.content) # <<>>
    THEN [key |-> TrimSpace(e.keyFile.content), err |-> "",
          asked |-> <<"file">>]
    ELSE IF e.envKey # <<>>
    THEN [key |-> e.envKey, err |-> "", asked |-> <<"file", "env">>]
    ELSE IF e.prompt.err \/ e.prompt.value = <<>>
    THEN [key |-> <<>>, err |-> "API key cannot be empty",
          asked |-> <<"file", "env", "prompt">>]
    ELSE [key |-> e.prompt.value, err |-> "",
          asked |-> <<"file", "env", "prompt">>]

\* getAPIKey: the key returned, the error returned ("" for nil), and the
\* sources looked at, in order
getAPIKey(e) ==
    IF e.envKey # <<>>
    THEN [key |-> e.envKey, err |-> "", asked |-> <<"env">>]
    ELSE IF ~e.executable
    THEN [key |-> <<>>, err |-> "could not get executable path",
          asked |-> <<"env">>]
    ELSE IF e.keyFile.stat /\ e.keyFile.read
            /\ TrimSpace(e.keyFile.content) # <<>>
    THEN [key |-> TrimSpace(e.keyFile.content), err |-> "",
          asked |-> <<"env", "file">>]
    ELSE IF e.prompt.err
    THEN [key |-> <<>>, err |-> "could not get API key from user",
          asked |-> <<"env", "file", "prompt">>]
    ELSE IF e.prompt.value = <<>>
    THEN [key |-> <<>>, err |-> "API key cannot be empty",
          asked |-> <<"env", "file", "prompt">>]
    ELSE [key |-> e.prompt.value, err |-> "",
          asked |-> <<"env", "file", "prompt">>]

\* what client.ListModels may answer
ListModelsOutcomes == {"ok", "unauthorized", "failed"}

\* validateAPIKey: the error returned ("" for nil)
validateAPIKey(outcome) ==
    CASE outcome = "ok" -> ""
      [] outcome = "unauthorized" ->
            "the provided API key is invalid or has expired"
      [] OTHER -> "could not connect to OpenAI"

DotXlsx == <<".", "x", "l", "s", "x">>
DotCsv == <<".", "c", "s", "v">>
TranslatedDash == <<"t", "r", "a", "n", "s", "l", "a", "t", "e", "d", "-">>

\* file names found in the working directory
NameA           == <<"a">> \o DotXlsx
NameAB          == <<"a", ".", "b">> \o DotXlsx
NameBare        == DotXlsx
NameCsv         == <<"a">> \o DotCsv
NameTranslated  == TranslatedDash \o <<"a">> \o DotXlsx
NameCapital     == <<"T">> \o Tail(TranslatedDash) \o <<"a">> \o DotXlsx
NameNoDash      == <<"t", "r", "a", "n", "s", "l", "a", "t", "e", "d">> \o DotXlsx

FileNames ==
    {NameA, NameAB, NameBare, NameCsv, NameTranslated, NameCapital, NameNoDash}

\* listings of the working directory
Directories == SUBSET FileNames

\* filepath.Glob("*.xlsx") on a directory holding the names dir
Glob(dir) == {n \in dir : HasSuffix(n, DotXlsx)}

\* mutant of filteredFiles: every file found is offered
filteredFilesAll(fs) == fs

\* the files offered in the first form: those not starting with "translated-"
filteredFiles(fs) == {f \in fs : ~HasPrefix(f, TranslatedDash)}

\* filepath.Ext: the suffix of path from its last dot on, "" without a dot
Ext(path) ==
    LET dots == {k \in 1..Len(path) : path[k] = "."}
    IN  IF dots = {} THEN <<>>
        ELSE SubSeq(path, CHOOSE k \in dots : \A j \in dots : j <= k, Len(path))

\* strings.TrimSuffix
TrimSuffix(s, suffix) ==
    IF HasSuffix(s, suffix) THEN SubSeq(s, 1, Len(s) - Len(suffix)) ELSE s

\* mutant of newFileName: the input name is kept as it is
newFileNameSame(name, csv) == name

\* baseName := "translated-" + strings.TrimSuffix(fileName, filepath.Ext(fileName));
\* newFileName = baseName + ".csv" or baseName + ".xlsx"
newFileName(name, csv) ==
    TranslatedDash \o TrimSuffix(name, Ext(name))
        \o (IF csv THEN DotCsv ELSE DotXlsx)

(***************************************************************************)
(* The bubbletea model: model.Update, one message at a time.               *)
(***************************************************************************)
\* no program p has been created
NoProgram ==
    [status |-> "none", percent |-> <<0, 1>>, logMessages |-> <<>>,
     done |-> FALSE]

\* model{progressBar: ...} handed to tea.NewProgram, and p.Run under way
NewProgram ==
    [status |-> "running", percent |-> <<0, 1>>, logMessages |-> <<>>,
     done |-> FALSE]

\* the log lines kept on the screen
MaxLogMessages == 50

\* model.Update for the messages of the driver and for a key; tea.Quit
\* ends p.Run, at once for a key and from the delayed command for doneMsg
Update(m, msg) ==
    CASE msg.kind = "key" -> [m EXCEPT !.status = "quit"]
      [] msg.kind = "progress" -> [m EXCEPT !.percent = <<msg.num, msg.den>>]
      [] msg.kind = "log" ->
            [m EXCEPT !.logMessages =
                IF Len(@) + 1 > MaxLogMessages THEN Tail(Append(@, msg))
                ELSE Append(@, msg)]
      [] msg.kind = "done" -> [m EXCEPT !.done = TRUE]
      [] OTHER -> m

\* p.Send of msgs in order: each is handled by Update while p.Run is under
\* way, and dropped before the program is there and after it has ended
RECURSIVE Deliver(_, _)
Deliver(m, msgs) ==
    IF msgs = <<>> \/ m.status # "running" THEN m
    ELSE Deliver(Update(m, Head(msgs)), Tail(msgs))

(***************************************************************************)
(* State of one run of iterateAndTranslate.                                *)
(***************************************************************************)
VARIABLES
    rows,                \* the rows read before the run (rows[1] is the header)
    sourceIndex,         \* 0-based column of the source language
    targetIndex,         \* 0-based column of the target language
    translationMode,     \* "full" or "quick"
    sheet,               \* the cells of the open file f, by 0-based row and column
    i,                   \* 0-based index of the row the loop is at
    previousText,        \* history: source text of the last saved row
    previousTranslation, \* history: text saved for that row
    skippedCount,        \* rows skipped by the quick-mode gate
    calls,               \* the translateText calls made so far, in order
    writes,              \* the SetCellValue calls made so far, in order
    sent,                \* the messages handed to p.Send so far, in order
    pc,                  \* "loop", or "done" once the deferred function has run
    patternCache,        \* pattern-cache variant: normalized source -> translation
    input,               \* the text a helper function is applied to
    output,              \* what the helper function returned for it
    mainPc,              \* the statement main is at
    mainErr,             \* the error handed to displayErrorAndExit, "" if none
    apiKey,              \* main: apiKey
    csvOutput,           \* main: *csvOutput, the -csv flag
    files,               \* main: files, the result of filepath.Glob
    fileName,            \* main: fileName, the file chosen in the first form
    ui,                  \* the bubbletea program p and its model m
    saved,               \* the output file written by main, NoFile before
    earlier              \* the calls and writes of an earlier run of the program

\* main and what surrounds it
mainVars == <<mainPc, mainErr, apiKey, csvOutput, files, fileName, saved,
              earlier>>

vars == <<rows, sourceIndex, targetIndex, translationMode, sheet, i,
          previousText, previousTranslation, skippedCount, calls, writes,
          sent, pc, patternCache, input, output, mainPc, mainErr, apiKey,
          csvOutput, files, fileName, ui, saved, earlier>>

\* rows[k] and row[c] with the 0-based indices of the code
\* mutant of Row: the cells of the row are read from the file during the run
RowFromFile(k) == [c \in 1..Len(rows[1]) |-> sheet[k][c - 1]]

Row(k) == rows[k + 1]
Cell(row, c) == row[c + 1]

totalRows == Len(rows)

\* the cell of row k, column c of the file opened from these rows
InitialCell(rs, k, c) ==
    IF Len(rs[k + 1]) > c THEN rs[k + 1][c + 1] ELSE <<>>

\* make(map[string]string)
EmptyCache == [k \in {} |-> <<>>]

\* no helper function has been applied
NoOutput == [fn |-> "none"]

\* no output file has been written
NoFile == [name |-> <<>>, cells |-> <<>>, closed |-> FALSE]

\* no earlier run is on record, and the backend may answer the same text
\* differently from one call to the next
NoEarlierRun == [fixed |-> FALSE, runs |-> 0, calls |-> <<>>, writes |-> <<>>]

\* the row loop, or a helper function, taken by itself: main is left out
NoMain ==
    /\ mainPc = "none"
    /\ mainErr = ""
    /\ apiKey = <<>>
    /\ csvOutput = FALSE
    /\ files = {}
    /\ fileName = <<>>
    /\ ui = NoProgram
    /\ saved = NoFile
    /\ earlier = NoEarlierRun

Init ==
    /\ rows \in {<<HeaderRow>> \o d : d \in [1..MaxDataRows -> DataRows]}
    /\ \E cc \in ColumnChoices : sourceIndex = cc[1] /\ targetIndex = cc[2]
    /\ translationMode \in TranslationModes
    /\ sheet = [k \in 0..(Len(rows) - 1) |->
                  [c \in 0..(Len(HeaderRow) - 1) |-> InitialCell(rows, k, c)]]
    /\ i = 0
    /\ previousText = <<>>
    /\ previousTranslation = <<>>
    /\ skippedCount = 0
    /\ calls = <<>>
    /\ writes = <<>>
    /\ sent = <<>>
    /\ pc = "loop"
    /\ patternCache = EmptyCache
    /\ input = <<>>
    /\ output = NoOutput
    /\ NoMain

(***************************************************************************)
(* Effects used by the loop body.                                          *)
(***************************************************************************)
\* mutant of progressMsg: the fraction is taken from the row index itself
progressMsgFromIndex == [kind |-> "progress", num |-> i, den |-> totalRows]

\* progressMsg(float64(i+1) / float64(totalRows)), kept as the pair
progressMsg == [kind |-> "progress", num |-> i + 1, den |-> totalRows]
logMsg(tag, arg) == [kind |-> "log", tag |-> tag, arg |-> arg]
doneMsg == [kind |-> "done"]

\* mutant of Send: the driver hands a message over only while the program
\* is there to take it, and waits otherwise
SendWaitsForProgram(msgs) ==
    /\ ui.status = "running"
    /\ sent' = sent \o <<progressMsg>> \o msgs
    /\ ui' = Deliver(ui, <<progressMsg>> \o msgs)

\* p.Send of the progress message of the row and of the log messages msgs
Send(msgs) ==
    /\ sent' = sent \o <<progressMsg>> \o msgs
    /\ ui' = Deliver(ui, <<progressMsg>> \o msgs)

\* mutant of SetCellValue: the cell of the row above is written
SetCellValueRowAbove(value) ==
    /\ sheet' = [sheet EXCEPT ![i - 1][targetIndex] = value]
    /\ writes' = Append(writes, [row |-> i - 1, col |-> targetIndex, val |-> value])

\* mutant of SetCellValue: the cell of the source column is written
SetCellValueSourceColumn(value) ==
    /\ sheet' = [sheet EXCEPT ![i][sourceIndex] = value]
    /\ writes' = Append(writes, [row |-> i, col |-> sourceIndex, val |-> value])

\* f.SetCellValue(sheetName, CoordinatesToCellName(targetIndex+1, i+1), value)
SetCellValue(value) ==
    /\ sheet' = [sheet EXCEPT ![i][targetIndex] = value]
    /\ writes' = Append(writes, [row |-> i, col |-> targetIndex, val |-> value])

\* what translateText may return for text: any result of the backend, or,
\* when the backend is a fixed function of the text, what it returned for
\* the same text before (in the earlier run, or earlier in this one)
Answers(text) ==
    LET known == earlier.calls \o calls
        same  == {k \in 1..Len(known) : known[k].arg = text}
    IN  IF earlier.fixed /\ same # {}
        THEN {[err |-> known[k].err, val |-> known[k].val] : k \in same}
        ELSE translateText(text)

\* mutant of Called: a failed call is made a second time
CalledAgainOnError(arg, res) ==
    LET call == [row |-> i, arg |-> arg, err |-> res.err, val |-> res.val]
    IN  calls' = IF res.err THEN calls \o <<call, call>> ELSE Append(calls, call)

\* a call of translateText for row i with argument arg and result res
Called(arg, res) ==
    calls' = Append(calls, [row |-> i, arg |-> arg, err |-> res.err, val |-> res.val])

\* mutant of saveAndContinue: the cell is written, the history is kept
saveWithoutHistory(text, translatedText) ==
    /\ SetCellValue(translatedText)
    /\ UNCHANGED <<previousText, previousTranslation>>

\* the label saveAndContinue: write the cell and update the history
saveAndContinue(text, translatedText) ==
    /\ SetCellValue(translatedText)
    /\ previousText' = text
    /\ previousTranslation' = translatedText

\* mutant of Continue: the history is cleared on the way to the next row
ContinueClearsHistory == previousText' = <<>> /\ previousTranslation' = <<>>

\* continue: on to the next row, history as it was
Continue == UNCHANGED <<previousText, previousTranslation>>

\* what no step of the loop changes: the inputs of the run, and the state
\* of the other programs of the repository
Frame ==
    UNCHANGED <<rows, sourceIndex, targetIndex, translationMode,
                patternCache, input, output, mainVars>>

(***************************************************************************)
(* The conditions of the loop body, in the order the code tests them.      *)
(***************************************************************************)
InLoop == pc = "loop" /\ i < totalRows

\* strings.TrimSpace(row[sourceIndex])
Text == TrimSpace(Cell(Row(i), sourceIndex))

HasSource == InLoop /\ i # 0 /\ ~(Len(Row(i)) <= sourceIndex)

\* mutant of IsDefaultText: the comparison is case-sensitive
IsDefaultTextExact(text) == text = <<"T", "e", "x", "t">>

IsDefaultText(text) == EqualFold(text, <<"T", "e", "x", "t">>)

IsShortText(text) == ByteLen(text) < 3 \/ (ByteLen(text) > 0 /\ text[1] = "!")

\* mutant of shouldSkip: the quotes around the target text are kept
shouldSkipKeepsQuotes(row) ==
    /\ Len(row) > targetIndex
    /\ LET targetText == TrimSpace(Cell(row, targetIndex))
           targetTextForCheck == ToLower(targetText)
       IN  targetTextForCheck # <<>> /\ targetTextForCheck # <<"t", "e", "x", "t">>

\* mutant of shouldSkip: the test is inverted
shouldSkipInverted(row) ==
    /\ Len(row) > targetIndex
    /\ LET targetText == TrimSpace(Cell(row, targetIndex))
           targetTextForCheck == ToLower(TrimQuotes(targetText))
       IN  targetTextForCheck = <<>> \/ targetTextForCheck = <<"t", "e", "x", "t">>

\* the quick-mode gate on the target cell of the row as read before the run
shouldSkip(row) ==
    /\ Len(row) > targetIndex
    /\ LET targetText == TrimSpace(Cell(row, targetIndex))
           targetTextForCheck == ToLower(TrimQuotes(targetText))
       IN  targetTextForCheck # <<>> /\ targetTextForCheck # <<"t", "e", "x", "t">>

QuickSkips == translationMode = "quick" /\ shouldSkip(Row(i))

\* the row reaches the reuse strategies
ReachesTranslation ==
    /\ HasSource
    /\ ~IsDefaultText(Text)
    /\ ~isPlaceholder(Text)
    /\ ~IsShortText(Text)
    /\ ~AtoiOk(Text)
    /\ ~QuickSkips

\* the '#' strategy resolves the row (lines 479-485)
HashApplies(text, prevText, prevTranslation) ==
    /\ Contains(text, "#") /\ Contains(prevText, "#")
    /\ LET currentParts == SplitN2(text, "#")
           previousParts == SplitN2(prevText, "#")
       IN  /\ Len(currentParts) = 2 /\ Len(previousParts) = 2
           /\ currentParts[1] = previousParts[1]
    /\ Len(SplitN2(prevTranslation, "#")) = 2

\* the underscore strategy resolves the row (lines 506-510)
UnderscoreApplies(text, prevText) ==
    /\ hasUnderscoreNumberPattern(text) /\ hasUnderscoreNumberPattern(prevText)
    /\ extractBaseAndSuffix(text).base = extractBaseAndSuffix(prevText).base

\* mutant of HashSuffix: the whole text is taken for the suffix
HashSuffixWholeText(text) == text

\* suffix := strings.TrimSpace(currentParts[1])
HashSuffix(text) == TrimSpace(SplitN2(text, "#")[2])

\* mutant of HashJoin: the separator is left out
HashJoinNoSeparator(prefix, suffix) == prefix \o suffix

\* translatedPreviousParts[0] + "#" + suffix
HashJoin(prefix, suffix) == prefix \o <<"#">> \o suffix

\* mutant of UnderscoreJoin: the separator is left out
UnderscoreJoinNoSeparator(base, suffix) == base \o suffix

\* translatedPreviousBase + "_" + suffix
UnderscoreJoin(base, suffix) == base \o <<"_">> \o suffix

(***************************************************************************)
(* The loop body of iterateAndTranslate, one action per way through it.    *)
(***************************************************************************)
NoCall == UNCHANGED calls
NoWrite == UNCHANGED <<sheet, writes>>
NextRow == i' = i + 1 /\ pc' = pc /\ Frame

\* if i == 0 { continue }
SkipHeader ==
    /\ InLoop /\ i = 0
    /\ Send(<<>>)
    /\ NoCall /\ NoWrite /\ Continue
    /\ UNCHANGED skippedCount
    /\ NextRow

\* if len(row) <= sourceIndex { continue }
SkipNoSource ==
    /\ InLoop /\ i # 0 /\ Len(Row(i)) <= sourceIndex
    /\ Send(<<>>)
    /\ NoCall /\ NoWrite /\ Continue
    /\ UNCHANGED skippedCount
    /\ NextRow

\* if strings.EqualFold(text, "Text") { continue }
SkipDefault ==
    /\ HasSource
    /\ IsDefaultText(Text)
    /\ Send(<<>>)
    /\ NoCall /\ NoWrite /\ Continue
    /\ UNCHANGED skippedCount
    /\ NextRow

\* mutant of CopyPlaceholder: the placeholder branch passes the row over
\* without the copy
CopyPlaceholderSkips ==
    /\ HasSource
    /\ ~IsDefaultText(Text)
    /\ isPlaceholder(Text)
    /\ Send(<<>>)
    /\ NoCall /\ NoWrite /\ Continue
    /\ UNCHANGED skippedCount
    /\ NextRow

\* if isPlaceholder(text) { ... SetCellValue(text); continue }
CopyPlaceholder ==
    /\ HasSource
    /\ ~IsDefaultText(Text)
    /\ isPlaceholder(Text)
    /\ Send(<<logMsg("Copied placeholder", Text)>>)
    /\ SetCellValue(Text)
    /\ NoCall /\ Continue
    /\ UNCHANGED skippedCount
    /\ NextRow

\* mutant of CopyShort: the row is passed over without the copy, as an
\* earlier version of the loop did
CopyShortSkips ==
    /\ HasSource
    /\ ~IsDefaultText(Text)
    /\ ~isPlaceholder(Text)
    /\ IsShortText(Text)
    /\ Send(<<>>)
    /\ NoCall /\ NoWrite /\ Continue
    /\ UNCHANGED skippedCount
    /\ NextRow

\* if len(text) < 3 || (len(text) > 0 && text[0] == '!') { ... continue }
CopyShort ==
    /\ HasSource
    /\ ~IsDefaultText(Text)
    /\ ~isPlaceholder(Text)
    /\ IsShortText(Text)
    /\ Send(<<logMsg("Copying short text", Text)>>)
    /\ SetCellValue(Text)
    /\ NoCall /\ Continue
    /\ UNCHANGED skippedCount
    /\ NextRow

\* mutant of CopyNumeral: the row is passed over without the copy, as an
\* earlier version of the loop did
CopyNumeralSkips ==
    /\ HasSource
    /\ ~IsDefaultText(Text)
    /\ ~isPlaceholder(Text)
    /\ ~IsShortText(Text)
    /\ AtoiOk(Text)
    /\ Send(<<>>)
    /\ NoCall /\ NoWrite /\ Continue
    /\ UNCHANGED skippedCount
    /\ NextRow

\* if _, err := strconv.Atoi(text); err == nil { ... continue }
CopyNumeral ==
    /\ HasSource
    /\ ~IsDefaultText(Text)
    /\ ~isPlaceholder(Text)
    /\ ~IsShortText(Text)
    /\ AtoiOk(Text)
    /\ Send(<<logMsg("Copying numeral", Text)>>)
    /\ SetCellValue(Text)
    /\ NoCall /\ Continue
    /\ UNCHANGED skippedCount
    /\ NextRow

\* mutant of QuickSkip: the row is passed over without being counted
QuickSkipUncounted ==
    /\ HasSource
    /\ ~IsDefaultText(Text)
    /\ ~isPlaceholder(Text)
    /\ ~IsShortText(Text)
    /\ ~AtoiOk(Text)
    /\ QuickSkips
    /\ Send(<<logMsg("Quick mode: skipping row", i + 1)>>)
    /\ UNCHANGED skippedCount
    /\ NoCall /\ NoWrite /\ Continue
    /\ NextRow

\* if translationMode == "quick" { ... if shouldSkip { skippedCount++; continue } }
QuickSkip ==
    /\ HasSource
    /\ ~IsDefaultText(Text)
    /\ ~isPlaceholder(Text)
    /\ ~IsShortText(Text)
    /\ ~AtoiOk(Text)
    /\ QuickSkips
    /\ Send(<<logMsg("Quick mode: skipping row", i + 1)>>)
    /\ skippedCount' = skippedCount + 1
    /\ NoCall /\ NoWrite /\ Continue
    /\ NextRow

\* '#' reuse with a suffix that parses as an integer (lines 487-489)
HashReuseNumber ==
    /\ ReachesTranslation
    /\ HashApplies(Text, previousText, previousTranslation)
    /\ LET suffix == HashSuffix(Text)
           translatedPreviousParts == SplitN2(previousTranslation, "#")
       IN  /\ AtoiOk(suffix)
           /\ Send(<<logMsg("Reused prefix for", Text)>>)
           /\ saveAndContinue(Text, HashJoin(translatedPreviousParts[1], suffix))
    /\ NoCall
    /\ UNCHANGED skippedCount
    /\ NextRow

\* text written by the '#' strategy after the call on the suffix (lines 493-498)
HashSuffixResult(text, translatedPrefix, res) ==
    IF res.err THEN text ELSE HashJoin(translatedPrefix, res.val)

\* '#' reuse with any other suffix: translate the suffix only (lines 490-499)
HashTranslateSuffix ==
    /\ ReachesTranslation
    /\ HashApplies(Text, previousText, previousTranslation)
    /\ LET suffix == HashSuffix(Text)
           translatedPreviousParts == SplitN2(previousTranslation, "#")
       IN  /\ ~AtoiOk(suffix)
           /\ \E res \in Answers(suffix) :
                /\ Called(suffix, res)
                /\ Send(<<logMsg("Translating suffix", suffix)>>
                        \o IF res.err THEN <<logMsg("ERROR", Text)>> ELSE <<>>)
                /\ saveAndContinue(Text,
                       HashSuffixResult(Text, translatedPreviousParts[1], res))
    /\ UNCHANGED skippedCount
    /\ NextRow

\* text written by the underscore strategy after the call on the suffix
UnderscoreSuffixResult(text, translatedBase, res) ==
    IF res.err THEN text ELSE UnderscoreJoin(translatedBase, res.val)

\* mutant of UnderscoreReuse: the underscore strategy does not wait for the
\* '#' strategy to pass the row on
UnderscoreReuseFirst ==
    /\ ReachesTranslation
    /\ UnderscoreApplies(Text, previousText)
    /\ LET currentSuffix == extractBaseAndSuffix(Text).suffix
           translatedPreviousBase == extractBaseAndSuffix(previousTranslation).base
       IN  IF AtoiOk(currentSuffix)
           THEN /\ Send(<<logMsg("Reused base for", Text)>>)
                /\ saveAndContinue(Text,
                       UnderscoreJoin(translatedPreviousBase, currentSuffix))
                /\ NoCall
           ELSE \E res \in Answers(currentSuffix) :
                /\ Called(currentSuffix, res)
                /\ Send(<<logMsg("Translating suffix", currentSuffix)>>
                        \o IF res.err THEN <<logMsg("ERROR", Text)>> ELSE <<>>)
                /\ saveAndContinue(Text,
                       UnderscoreSuffixResult(Text, translatedPreviousBase, res))
    /\ UNCHANGED skippedCount
    /\ NextRow

\* mutant of UnderscoreReuse: the test of the suffix is inverted, a numeric
\* suffix is sent to translateText
UnderscoreReuseInverted ==
    /\ ReachesTranslation
    /\ ~HashApplies(Text, previousText, previousTranslation)
    /\ UnderscoreApplies(Text, previousText)
    /\ LET currentSuffix == extractBaseAndSuffix(Text).suffix
           translatedPreviousBase == extractBaseAndSuffix(previousTranslation).base
       IN  IF ~AtoiOk(currentSuffix)
           THEN /\ Send(<<logMsg("Reused base for", Text)>>)
                /\ saveAndContinue(Text,
                       UnderscoreJoin(translatedPreviousBase, currentSuffix))
                /\ NoCall
           ELSE \E res \in Answers(currentSuffix) :
                /\ Called(currentSuffix, res)
                /\ Send(<<logMsg("Translating suffix", currentSuffix)>>
                        \o IF res.err THEN <<logMsg("ERROR", Text)>> ELSE <<>>)
                /\ saveAndContinue(Text,
                       UnderscoreSuffixResult(Text, translatedPreviousBase, res))
    /\ UNCHANGED skippedCount
    /\ NextRow

\* underscore + number reuse (lines 506-530)
UnderscoreReuse ==
    /\ ReachesTranslation
    /\ ~HashApplies(Text, previousText, previousTranslation)
    /\ UnderscoreApplies(Text, previousText)
    /\ LET currentSuffix == extractBaseAndSuffix(Text).suffix
           translatedPreviousBase == extractBaseAndSuffix(previousTranslation).base
       IN  IF AtoiOk(currentSuffix)
           THEN /\ Send(<<logMsg("Reused base for", Text)>>)
                /\ saveAndContinue(Text,
                       UnderscoreJoin(translatedPreviousBase, currentSuffix))
                /\ NoCall
           ELSE \E res \in Answers(currentSuffix) :
                /\ Called(currentSuffix, res)
                /\ Send(<<logMsg("Translating suffix", currentSuffix)>>
                        \o IF res.err THEN <<logMsg("ERROR", Text)>> ELSE <<>>)
                /\ saveAndContinue(Text,
                       UnderscoreSuffixResult(Text, translatedPreviousBase, res))
    /\ UNCHANGED skippedCount
    /\ NextRow

\* mutant of FullFailed: the failed row is taken for the previous row, with
\* nothing to reuse from it
FullFailedClearsHistory(text) ==
    /\ Send(<<logMsg("Translating", text), logMsg("ERROR", text)>>)
    /\ NoWrite
    /\ previousText' = <<>> /\ previousTranslation' = <<>>

\* the full-text call failed: log and continue (lines 534-537)
FullFailed(text) ==
    /\ Send(<<logMsg("Translating", text), logMsg("ERROR", text)>>)
    /\ NoWrite /\ Continue

\* the full-text call succeeded: fall into saveAndContinue
FullSucceeded(text, translatedText) ==
    /\ Send(<<logMsg("Translating", text)>>)
    /\ saveAndContinue(text, translatedText)

\* full translation of the text (lines 532-545)
FullTranslate ==
    /\ ReachesTranslation
    /\ ~HashApplies(Text, previousText, previousTranslation)
    /\ ~UnderscoreApplies(Text, previousText)
    /\ \E res \in Answers(Text) :
         /\ Called(Text, res)
         /\ IF res.err THEN FullFailed(Text) ELSE FullSucceeded(Text, res.val)
    /\ UNCHANGED skippedCount
    /\ NextRow

\* the loop is over: the deferred function sends the summary and doneMsg
Finish ==
    /\ pc = "loop" /\ i = totalRows
    /\ LET msgs == (IF skippedCount > 0
                     THEN <<logMsg("Skipped rows in quick mode", skippedCount)>>
                     ELSE <<>>)
                    \o <<doneMsg>>
       IN  sent' = sent \o msgs /\ ui' = Deliver(ui, msgs)
    /\ pc' = "done"
    /\ UNCHANGED <<i, sheet, writes, calls, skippedCount,
                   previousText, previousTranslation>>
    /\ Frame

Next ==
    \/ SkipHeader
    \/ SkipNoSource
    \/ SkipDefault
    \/ CopyPlaceholder
    \/ CopyShort
    \/ CopyNumeral
    \/ QuickSkip
    \/ HashReuseNumber
    \/ HashTranslateSuffix
    \/ UnderscoreReuse
    \/ FullTranslate
    \/ Finish

Spec == Init /\ [][Next]_vars

(***************************************************************************)
(* The same loop on the rows at the edges of the copy classes.             *)
(***************************************************************************)
InitClass ==
    /\ rows \in {<<HeaderRow>> \o d : d \in [1..MaxDataRows -> ClassRows]}
    /\ \E cc \in ColumnChoices : sourceIndex = cc[1] /\ targetIndex = cc[2]
    /\ translationMode \in TranslationModes
    /\ sheet = [k \in 0..(Len(rows) - 1) |->
                  [c \in 0..(Len(HeaderRow) - 1) |-> InitialCell(rows, k, c)]]
    /\ i = 0
    /\ previousText = <<>>
    /\ previousTranslation = <<>>
    /\ skippedCount = 0
    /\ calls = <<>>
    /\ writes = <<>>
    /\ sent = <<>>
    /\ pc = "loop"
    /\ patternCache = EmptyCache
    /\ input = <<>>
    /\ output = NoOutput
    /\ NoMain

SpecClass == InitClass /\ [][Next]_vars

(***************************************************************************)
(* The loop with a backend that may leave a request unanswered.            *)
(* translateText hands context.Background() to CreateChatCompletion and    *)
(* the client is built by openai.NewClient with its default http.Client:   *)
(* nothing bounds the wait for the response, so the goroutine stays in the *)
(* call for as long as the backend stays silent.                           *)
(***************************************************************************)
\* the row is one the loop makes a translateText call for
CallDue ==
    /\ ReachesTranslation
    /\ HashApplies(Text, previousText, previousTranslation)
         => ~AtoiOk(HashSuffix(Text))
    /\ ~HashApplies(Text, previousText, previousTranslation)
         => \/ ~UnderscoreApplies(Text, previousText)
            \/ ~AtoiOk(extractBaseAndSuffix(Text).suffix)

\* the argument of the call that is due
CallArgument ==
    IF HashApplies(Text, previousText, previousTranslation)
    THEN HashSuffix(Text)
    ELSE IF UnderscoreApplies(Text, previousText)
         THEN extractBaseAndSuffix(Text).suffix
         ELSE Text

\* the log message sent just before the call
CallAnnouncement ==
    IF \/ HashApplies(Text, previousText, previousTranslation)
       \/ UnderscoreApplies(Text, previousText)
    THEN logMsg("Translating suffix", CallArgument)
    ELSE logMsg("Translating", CallArgument)

\* the call is made and the backend never answers: CreateChatCompletion
\* does not return, and neither does the goroutine
CallNeverReturns ==
    /\ CallDue
    /\ Send(<<CallAnnouncement>>)
    /\ pc' = "blocked"
    /\ UNCHANGED <<i, sheet, writes, calls, skippedCount,
                   previousText, previousTranslation>>
    /\ Frame

NextLive == Next \/ CallNeverReturns

\* the goroutine is scheduled for as long as it can take a step
SpecLive == InitClass /\ [][NextLive]_vars /\ WF_vars(NextLive)

(***************************************************************************)
(* The program run twice on the same file with a backend that is a fixed   *)
(* function of the text: the second run opens the input file again and     *)
(* enters iterateAndTranslate afresh.                                      *)
(***************************************************************************)
\* the backend is a fixed function; no run has ended yet
FirstRun == [fixed |-> TRUE, runs |-> 0, calls |-> <<>>, writes |-> <<>>]

InitTwice ==
    /\ rows \in {<<HeaderRow>> \o d : d \in [1..MaxDataRows -> ClassRows]}
    /\ \E cc \in ColumnChoices : sourceIndex = cc[1] /\ targetIndex = cc[2]
    /\ translationMode \in TranslationModes
    /\ sheet = [k \in 0..(Len(rows) - 1) |->
                  [c \in 0..(Len(HeaderRow) - 1) |-> InitialCell(rows, k, c)]]
    /\ i = 0
    /\ previousText = <<>>
    /\ previousTranslation = <<>>
    /\ skippedCount = 0
    /\ calls = <<>>
    /\ writes = <<>>
    /\ sent = <<>>
    /\ pc = "loop"
    /\ patternCache = EmptyCache
    /\ input = <<>>
    /\ output = NoOutput
    /\ mainPc = "none"
    /\ mainErr = ""
    /\ apiKey = <<>>
    /\ csvOutput = FALSE
    /\ files = {}
    /\ fileName = <<>>
    /\ ui = NoProgram
    /\ saved = NoFile
    /\ earlier = FirstRun

\* mutant of EmptyHistory: the history of the earlier run is still there
HistoryCarriedOver == UNCHANGED <<previousText, previousTranslation>>

\* var previousText, previousTranslation string
EmptyHistory == previousText' = <<>> /\ previousTranslation' = <<>>

\* the program is started again on the same file: the file is opened and
\* read anew, and iterateAndTranslate is entered with the same arguments
RunAgain ==
    /\ pc = "done"
    /\ earlier.fixed /\ earlier.runs = 0
    /\ earlier' = [earlier EXCEPT !.runs = 1, !.calls = calls, !.writes = writes]
    /\ sheet' = [k \in 0..(Len(rows) - 1) |->
                   [c \in 0..(Len(HeaderRow) - 1) |-> InitialCell(rows, k, c)]]
    /\ i' = 0
    /\ EmptyHistory
    /\ skippedCount' = 0
    /\ calls' = <<>>
    /\ writes' = <<>>
    /\ sent' = <<>>
    /\ pc' = "loop"
    /\ UNCHANGED <<rows, sourceIndex, targetIndex, translationMode,
                   patternCache, input, output, mainPc, mainErr, apiKey,
                   csvOutput, files, fileName, ui, saved>>

NextTwice ==
    \/ Next
    \/ RunAgain

SpecTwice == InitTwice /\ [][NextTwice]_vars

(***************************************************************************)
(* The helper functions applied to texts, as the tests of pattern_test.go  *)
(* apply the underscore helpers and as the pattern-cache variant applies   *)
(* normalizeText and the substitution loop.                                *)
(***************************************************************************)
\* no run of a row loop is under way
DriverIdle ==
    /\ rows = <<>>
    /\ sourceIndex = 0
    /\ targetIndex = 0
    /\ translationMode = "full"
    /\ sheet = <<>>
    /\ i = 0
    /\ previousText = <<>>
    /\ previousTranslation = <<>>
    /\ skippedCount = 0
    /\ calls = <<>>
    /\ writes = <<>>
    /\ sent = <<>>
    /\ pc = "idle"
    /\ patternCache = EmptyCache

DriverUnchanged ==
    UNCHANGED <<rows, sourceIndex, targetIndex, translationMode, sheet, i,
                previousText, previousTranslation, skippedCount, calls, writes,
                sent, pc, patternCache, mainVars, ui>>

InitPattern ==
    /\ DriverIdle
    /\ NoMain
    /\ input \in PatternTexts
    /\ output = NoOutput

\* result := hasUnderscoreNumberPattern(tc.input)
TestHasUnderscoreNumberPattern ==
    /\ output' = [fn     |-> "hasUnderscoreNumberPattern",
                  result |-> hasUnderscoreNumberPattern(input)]
    /\ UNCHANGED input
    /\ DriverUnchanged

\* base, suffix := extractBaseAndSuffix(tc.input)
TestExtractBaseAndSuffix ==
    /\ output' = [fn     |-> "extractBaseAndSuffix",
                  base   |-> extractBaseAndSuffix(input).base,
                  suffix |-> extractBaseAndSuffix(input).suffix]
    /\ UNCHANGED input
    /\ DriverUnchanged

NextPattern ==
    \/ TestHasUnderscoreNumberPattern
    \/ TestExtractBaseAndSuffix

SpecPattern == InitPattern /\ [][NextPattern]_vars

InitNormalize ==
    /\ DriverIdle
    /\ NoMain
    /\ input \in NormTexts
    /\ output = NoOutput

\* pattern, numbers := normalizeText(text)
ApplyNormalizeText ==
    /\ output' = [fn      |-> "normalizeText",
                  pattern |-> normalizeText(input).pattern,
                  numbers |-> normalizeText(input).numbers]
    /\ UNCHANGED input
    /\ DriverUnchanged

\* the substitution loop of the cache hit, run on the pattern and the numbers
ApplySubstitute ==
    /\ output.fn = "normalizeText"
    /\ output' = [fn      |-> "Substitute",
                  pattern |-> output.pattern,
                  numbers |-> output.numbers,
                  text    |-> Substitute(output.pattern, output.numbers)]
    /\ UNCHANGED input
    /\ DriverUnchanged

NextNormalize ==
    \/ ApplyNormalizeText
    \/ ApplySubstitute

SpecNormalize == InitNormalize /\ [][NextNormalize]_vars

\* getAPIKey called in an environment
InitKey ==
    /\ DriverIdle
    /\ NoMain
    /\ input \in Environments
    /\ output = NoOutput

\* apiKey, err := getAPIKey()
CallGetAPIKey ==
    /\ output' = [fn    |-> "getAPIKey",
                  key   |-> getAPIKey(input).key,
                  err   |-> getAPIKey(input).err,
                  asked |-> getAPIKey(input).asked]
    /\ UNCHANGED input
    /\ DriverUnchanged

NextKey == CallGetAPIKey

SpecKey == InitKey /\ [][NextKey]_vars

\* the file steps of main in a working directory, with or without -csv
InitFiles ==
    /\ DriverIdle
    /\ NoMain
    /\ input \in [dir : Directories, csv : BOOLEAN]
    /\ output = NoOutput

\* files, err := filepath.Glob("*.xlsx") and the loop that fills filteredFiles
OfferFiles ==
    /\ output.fn = "none"
    /\ output' = [fn      |-> "filteredFiles",
                  offered |-> filteredFiles(Glob(input.dir))]
    /\ UNCHANGED input
    /\ DriverUnchanged

\* one of the files offered is chosen, and the output file is named
NameOutput ==
    /\ output.fn = "filteredFiles"
    /\ \E f \in output.offered :
         output' = [fn       |-> "newFileName",
                    fileName |-> f,
                    name     |-> newFileName(f, input.csv)]
    /\ UNCHANGED input
    /\ DriverUnchanged

NextFiles ==
    \/ OfferFiles
    \/ NameOutput

SpecFiles == InitFiles /\ [][NextFiles]_vars

(***************************************************************************)
(* The row loop of the pattern-cache variant: iterateAndTranslate of the   *)
(* program listed in README.md.                                            *)
(***************************************************************************)
InitCache ==
    /\ rows \in {<<HeaderRow>> \o d : d \in [1..MaxCacheRows -> CacheRows]}
    /\ \E cc \in CacheColumnChoices : sourceIndex = cc[1] /\ targetIndex = cc[2]
    /\ translationMode = "full"
    /\ sheet = [k \in 0..(Len(rows) - 1) |->
                  [c \in 0..(Len(HeaderRow) - 1) |-> InitialCell(rows, k, c)]]
    /\ i = 0
    /\ previousText = <<>>
    /\ previousTranslation = <<>>
    /\ skippedCount = 0
    /\ calls = <<>>
    /\ writes = <<>>
    /\ sent = <<>>
    /\ pc = "loop"
    /\ patternCache = EmptyCache
    /\ input = <<>>
    /\ output = NoOutput
    /\ NoMain

\* fmt.Printf of the lines msgs
Printf(msgs) == sent' = sent \o msgs

CacheNextRow ==
    /\ i' = i + 1
    /\ UNCHANGED <<rows, sourceIndex, targetIndex, translationMode, pc,
                   previousText, previousTranslation, skippedCount,
                   input, output, mainVars, ui>>

isMeaningless(text) == meaninglessAlarmRegex(text)

\* the row reaches normalizeText
ReachesLookup ==
    /\ HasSource
    /\ ~(ByteLen(Text) < 4)
    /\ ~AtoiOk(Text)
    /\ ~isMeaningless(Text)

\* mutant of CacheHit: the cache is never consulted
CacheHitNever(pattern, numbers) == FALSE

\* translatedPattern, found := patternCache[pattern]; found, len(numbers) > 0
\* and as many placeholders in translatedPattern as numbers
CacheHit(pattern, numbers) ==
    /\ pattern \in DOMAIN patternCache
    /\ Len(numbers) > 0
    /\ Count(patternCache[pattern], TokenN) = Len(numbers)

\* mutant of ShouldCache: the counts of numbers are not compared
ShouldCacheAnyCount(numbers, translatedNumbers) == Len(numbers) > 0

\* len(numbers) > 0 and len(numbers) == len(translatedNumbers)
ShouldCache(numbers, translatedNumbers) ==
    Len(numbers) > 0 /\ Len(numbers) = Len(translatedNumbers)

\* patternCache[pattern] = translatedPattern
Store(pattern, translatedPattern) ==
    patternCache' = [k \in DOMAIN patternCache \cup {pattern} |->
                        IF k = pattern THEN translatedPattern ELSE patternCache[k]]

\* if i == 0 { continue }
CacheSkipHeader ==
    /\ InLoop /\ i = 0
    /\ NoCall /\ NoWrite
    /\ UNCHANGED <<patternCache, sent>>
    /\ CacheNextRow

\* if len(row) <= sourceIndex { continue }
CacheSkipNoSource ==
    /\ InLoop /\ i # 0 /\ Len(Row(i)) <= sourceIndex
    /\ NoCall /\ NoWrite
    /\ UNCHANGED <<patternCache, sent>>
    /\ CacheNextRow

\* if len(text) < 4 { continue }
CacheSkipShort ==
    /\ HasSource
    /\ ByteLen(Text) < 4
    /\ NoCall /\ NoWrite
    /\ UNCHANGED <<patternCache, sent>>
    /\ CacheNextRow

\* if _, err := strconv.Atoi(text); err == nil { continue }
CacheSkipNumeral ==
    /\ HasSource
    /\ ~(ByteLen(Text) < 4)
    /\ AtoiOk(Text)
    /\ NoCall /\ NoWrite
    /\ UNCHANGED <<patternCache, sent>>
    /\ CacheNextRow

\* if isMeaningless(text) { ...; continue }
CacheSkipMeaningless ==
    /\ HasSource
    /\ ~(ByteLen(Text) < 4)
    /\ ~AtoiOk(Text)
    /\ isMeaningless(Text)
    /\ Printf(<<logMsg("Skipping meaningless text", Text)>>)
    /\ NoCall /\ NoWrite
    /\ UNCHANGED patternCache
    /\ CacheNextRow

\* the cached pattern is filled with the numbers of the row and saved
CacheReuse ==
    /\ ReachesLookup
    /\ LET pattern == normalizeText(Text).pattern
           numbers == normalizeText(Text).numbers
       IN  /\ CacheHit(pattern, numbers)
           /\ Printf(<<logMsg("Reusing translation pattern for", Text)>>)
           /\ SetCellValue(Substitute(patternCache[pattern], numbers))
    /\ NoCall
    /\ UNCHANGED patternCache
    /\ CacheNextRow

\* the text is translated, its pattern cached when the counts agree, and
\* the translation saved; on an error the row is left
CacheTranslate ==
    /\ ReachesLookup
    /\ LET pattern == normalizeText(Text).pattern
           numbers == normalizeText(Text).numbers
       IN  /\ ~CacheHit(pattern, numbers)
           /\ \E res \in translateTextCached(Text) :
                /\ Called(Text, res)
                /\ IF res.err
                   THEN /\ Printf(<<logMsg("Translating", Text),
                                    logMsg("Error", Text)>>)
                        /\ NoWrite
                        /\ UNCHANGED patternCache
                   ELSE LET translatedPattern == normalizeText(res.val).pattern
                            translatedNumbers == normalizeText(res.val).numbers
                        IN  /\ IF ShouldCache(numbers, translatedNumbers)
                               THEN /\ Store(pattern, translatedPattern)
                                    /\ Printf(<<logMsg("Translating", Text),
                                                logMsg("Result", res.val),
                                                logMsg("Caching new pattern for", pattern)>>)
                               ELSE /\ UNCHANGED patternCache
                                    /\ Printf(<<logMsg("Translating", Text),
                                                logMsg("Result", res.val)>>)
                            /\ SetCellValue(res.val)
    /\ CacheNextRow

NextCache ==
    \/ CacheSkipHeader
    \/ CacheSkipNoSource
    \/ CacheSkipShort
    \/ CacheSkipNumeral
    \/ CacheSkipMeaningless
    \/ CacheReuse
    \/ CacheTranslate

SpecCache == InitCache /\ [][NextCache]_vars

(***************************************************************************)
(* main: the key, the input file, the two forms, the run of the loop in a  *)
(* goroutine beside the bubbletea program, and the save.                   *)
(***************************************************************************)
\* the environments main is followed in: the variable set, or the variable
\* empty, no key file, and no path of the executable, or the prompt
\* aborted, left empty or left blank
MainEnvironments ==
    {e \in Environments :
        \/ e.envKey = <<"e">> /\ e.executable /\ ~e.keyFile.stat /\ e.prompt.err
        \/ /\ e.envKey = <<>> /\ ~e.keyFile.stat
           /\ \/ ~e.executable /\ e.prompt.err
              \/ e.executable /\ e.prompt.value \in {<<>>, <<" ">>}}

\* the working directories main is followed in: empty, holding only what
\* is not offered, and holding one file to translate beside an output
MainDirectories == {{}, {NameTranslated, NameCsv}, {NameAB, NameTranslated}}

\* data rows of the files main is followed on, two rows at a time
MainRowPairs ==
    {<< <<SrcHashNum>>, <<SrcHashNum>> >>,
     << <<SrcHashNum>>, <<SrcHashWord>> >>,
     << <<SrcUnder1>>, <<SrcUnder1>> >>,
     << <<SrcPlain, TgtOld>>, << >> >>,
     << <<SrcDefault>>, <<SrcPlHash2>> >>,
     << <<SrcShort, TgtOld>>, <<SrcNumeral, TgtOld>> >>}

\* the rows of a file: the header and up to MaxRowPairs pairs of data rows
MainSheets ==
    {<<HeaderRow>> \o Flatten(ps) : ps \in TextsOver(MainRowPairs, MaxRowPairs)}

\* the columns chosen in the setup form
MainColumnChoices == {<<0, 1>>}

InitMain ==
    /\ DriverIdle
    /\ translationMode = "full"
    /\ input = <<>>
    /\ output = NoOutput
    /\ mainPc = "getAPIKey"
    /\ mainErr = ""
    /\ apiKey = <<>>
    /\ csvOutput \in BOOLEAN
    /\ files = {}
    /\ fileName = <<>>
    /\ ui = NoProgram
    /\ saved = NoFile
    /\ earlier = NoEarlierRun

\* the local variables of iterateAndTranslate and what it sends
loopVars == <<i, previousText, previousTranslation, skippedCount, calls,
              writes, sent>>

\* what belongs to the other programs of the repository
asideVars == <<patternCache, input, output, earlier>>

\* mutant of displayErrorAndExit: the error is shown and main goes on
displayErrorAndReturn(err) ==
    /\ mainErr' = err
    /\ mainPc' = CASE mainPc = "getAPIKey" -> "validateAPIKey"
                   [] mainPc = "validateAPIKey" -> "glob"
                   [] mainPc = "glob" -> "selectFile"
                   [] OTHER -> "exit1"
    /\ pc' = IF mainPc \in {"run", "save"} THEN "killed" ELSE pc

\* displayErrorAndExit(err): the error is shown until a key is pressed, then
\* os.Exit(1) ends the process, the goroutine of the loop with it
displayErrorAndExit(err) ==
    /\ mainErr' = err
    /\ mainPc' = "exit1"
    /\ pc' = IF pc = "loop" THEN "killed" ELSE pc

\* apiKey, err := getAPIKey(); if err != nil { displayErrorAndExit(err) }
MainGetAPIKey ==
    /\ mainPc = "getAPIKey"
    /\ \E e \in MainEnvironments :
         IF getAPIKey(e).err # ""
         THEN displayErrorAndExit(getAPIKey(e).err) /\ UNCHANGED apiKey
         ELSE /\ apiKey' = getAPIKey(e).key
              /\ mainPc' = "validateAPIKey"
              /\ UNCHANGED <<mainErr, pc>>
    /\ UNCHANGED <<rows, sourceIndex, targetIndex, translationMode, sheet,
                   loopVars, asideVars, csvOutput, files, fileName, ui, saved>>

\* if err := validateAPIKey(apiKey); err != nil { displayErrorAndExit(...) }
MainValidateAPIKey ==
    /\ mainPc = "validateAPIKey"
    /\ \E outcome \in ListModelsOutcomes :
         IF validateAPIKey(outcome) # ""
         THEN displayErrorAndExit("API key validation failed")
         ELSE mainPc' = "glob" /\ UNCHANGED <<mainErr, pc>>
    /\ UNCHANGED <<rows, sourceIndex, targetIndex, translationMode, sheet,
                   loopVars, asideVars, apiKey, csvOutput, files, fileName,
                   ui, saved>>

\* files, err := filepath.Glob("*.xlsx"); the filter; the test for no file
MainGlob ==
    /\ mainPc = "glob"
    /\ \E dir \in MainDirectories :
         /\ files' = Glob(dir)
         /\ IF filteredFiles(files') = {}
            THEN displayErrorAndExit("No .xlsx files found to translate.")
            ELSE mainPc' = "selectFile" /\ UNCHANGED <<mainErr, pc>>
    /\ UNCHANGED <<rows, sourceIndex, targetIndex, translationMode, sheet,
                   loopVars, asideVars, apiKey, csvOutput, fileName, ui, saved>>

\* the first form: one of the files offered is chosen, or the form is left
MainSelectFile ==
    /\ mainPc = "selectFile"
    /\ \/ \E f \in filteredFiles(files) :
            /\ fileName' = f
            /\ mainPc' = "openFile"
            /\ UNCHANGED <<mainErr, pc>>
       \/ displayErrorAndExit("user aborted") /\ UNCHANGED fileName
    /\ UNCHANGED <<rows, sourceIndex, targetIndex, translationMode, sheet,
                   loopVars, asideVars, apiKey, csvOutput, files, ui, saved>>

\* f, err := excelize.OpenFile(fileName); rows, err := f.GetRows(sheetName)
MainOpenFile ==
    /\ mainPc = "openFile"
    /\ \/ \E rs \in MainSheets :
            /\ rows' = rs
            /\ sheet' = [k \in 0..(Len(rs) - 1) |->
                           [c \in 0..(Len(HeaderRow) - 1) |-> InitialCell(rs, k, c)]]
            /\ mainPc' = "setup"
            /\ UNCHANGED <<mainErr, pc>>
       \/ displayErrorAndExit("Error opening file") /\ UNCHANGED <<rows, sheet>>
    /\ UNCHANGED <<sourceIndex, targetIndex, translationMode, loopVars,
                   asideVars, apiKey, csvOutput, files, fileName, ui, saved>>

\* the setup form: the two columns and the mode, or the form is left
MainSetup ==
    /\ mainPc = "setup"
    /\ \/ \E cc \in MainColumnChoices, mode \in TranslationModes :
            /\ sourceIndex' = cc[1]
            /\ targetIndex' = cc[2]
            /\ translationMode' = mode
            /\ mainPc' = "start"
            /\ UNCHANGED <<mainErr, pc>>
       \/ /\ displayErrorAndExit("user aborted")
          /\ UNCHANGED <<sourceIndex, targetIndex, translationMode>>
    /\ UNCHANGED <<rows, sheet, loopVars, asideVars, apiKey, csvOutput, files,
                   fileName, ui, saved>>

\* p := tea.NewProgram(m); go iterateAndTranslate(...); p.Run() begins
MainStart ==
    /\ mainPc = "start"
    /\ ui' = NewProgram
    /\ pc' = "loop"
    /\ mainPc' = "run"
    /\ UNCHANGED <<rows, sourceIndex, targetIndex, translationMode, sheet,
                   loopVars, asideVars, mainErr, apiKey, csvOutput, files,
                   fileName, saved>>

\* what the steps of the program p leave alone
ProgramFrame ==
    UNCHANGED <<rows, sourceIndex, targetIndex, translationMode, sheet,
                loopVars, pc, asideVars, mainPc, mainErr, apiKey, csvOutput,
                files, fileName, saved>>

\* case tea.KeyMsg: return m, tea.Quit
UpdateKeyMsg ==
    /\ ui.status = "running"
    /\ ui' = Update(ui, [kind |-> "key"])
    /\ ProgramFrame

\* the command returned for doneMsg: sleep 500 ms, then tea.Quit
QuitAfterDone ==
    /\ ui.status = "running"
    /\ ui.done
    /\ ui' = [ui EXCEPT !.status = "quit"]
    /\ ProgramFrame

\* p.Run() returns without an error once the program has quit
MainRunReturns ==
    /\ mainPc = "run"
    /\ ui.status = "quit"
    /\ mainPc' = "save"
    /\ UNCHANGED <<rows, sourceIndex, targetIndex, translationMode, sheet,
                   loopVars, pc, asideVars, mainErr, apiKey, csvOutput, files,
                   fileName, ui, saved>>

\* p.Run() returns an error: displayErrorAndExit, nothing is saved
MainRunFails ==
    /\ mainPc = "run"
    /\ ui.status = "running"
    /\ ui' = [ui EXCEPT !.status = "quit"]
    /\ displayErrorAndExit("Error running program")
    /\ UNCHANGED <<rows, sourceIndex, targetIndex, translationMode, sheet,
                   loopVars, asideVars, apiKey, csvOutput, files, fileName,
                   saved>>

\* mutant of FileCells: the rows as read before the run are written out
FileCellsAsRead ==
    [k \in 0..(Len(rows) - 1) |->
        [c \in 0..(Len(HeaderRow) - 1) |-> InitialCell(rows, k, c)]]

\* the cells of f as f.SaveAs and saveAsCSV (f.GetRows) find them
FileCells == sheet

\* f.SaveAs(newFileName) or saveAsCSV(f, sheetName, newFileName) begins to
\* write the cells of f out, or fails
MainSaveBegins ==
    /\ mainPc = "save"
    /\ \/ /\ saved' = [name   |-> newFileName(fileName, csvOutput),
                        cells  |-> FileCells,
                        closed |-> FALSE]
          /\ mainPc' = "saving"
          /\ UNCHANGED <<mainErr, pc>>
       \/ displayErrorAndExit("Error saving new file") /\ UNCHANGED saved
    /\ UNCHANGED <<rows, sourceIndex, targetIndex, translationMode, sheet,
                   loopVars, asideVars, apiKey, csvOutput, files, fileName, ui>>

\* the save ends and main returns, which ends the process.  The goroutine
\* of the loop may have written cells while the file was written out: of a
\* row it holds the cells as they were when the save began or as they are
\* now
MainSaveEnds ==
    /\ mainPc = "saving"
    /\ \E late \in SUBSET {k \in DOMAIN sheet : FileCells[k] # saved.cells[k]} :
         saved' = [saved EXCEPT
                     !.cells = [k \in DOMAIN sheet |->
                                  IF k \in late THEN FileCells[k] ELSE saved.cells[k]],
                     !.closed = TRUE]
    /\ mainPc' = "exit0"
    /\ pc' = IF pc = "loop" THEN "killed" ELSE pc
    /\ UNCHANGED <<rows, sourceIndex, targetIndex, translationMode, sheet,
                   loopVars, asideVars, mainErr, apiKey, csvOutput, files,
                   fileName, ui>>

NextMain ==
    \/ MainGetAPIKey
    \/ MainValidateAPIKey
    \/ MainGlob
    \/ MainSelectFile
    \/ MainOpenFile
    \/ MainSetup
    \/ MainStart
    \/ Next
    \/ UpdateKeyMsg
    \/ QuitAfterDone
    \/ MainRunReturns
    \/ MainRunFails
    \/ MainSaveBegins
    \/ MainSaveEnds

SpecMain == InitMain /\ [][NextMain]_vars

(***************************************************************************)
(* The run itself: main has the key, the file and the setup, creates the   *)
(* program and starts the goroutine of the loop; from there on only the    *)
(* loop and the program's event loop take steps.                           *)
(***************************************************************************)
\* the files the run is followed on: the header and one pair of data rows
ProgramSheets == {<<HeaderRow>> \o p : p \in MainRowPairs}

InitProgram ==
    /\ rows \in ProgramSheets
    /\ \E cc \in MainColumnChoices : sourceIndex = cc[1] /\ targetIndex = cc[2]
    /\ translationMode \in TranslationModes
    /\ sheet = [k \in 0..(Len(rows) - 1) |->
                  [c \in 0..(Len(HeaderRow) - 1) |-> InitialCell(rows, k, c)]]
    /\ i = 0
    /\ previousText = <<>>
    /\ previousTranslation = <<>>
    /\ skippedCount = 0
    /\ calls = <<>>
    /\ writes = <<>>
    /\ sent = <<>>
    /\ pc = "idle"
    /\ patternCache = EmptyCache
    /\ input = <<>>
    /\ output = NoOutput
    /\ mainPc = "start"
    /\ mainErr = ""
    /\ apiKey = <<"e">>
    /\ csvOutput = FALSE
    /\ files = {NameAB, NameTranslated}
    /\ fileName = NameAB
    /\ ui = NoProgram
    /\ saved = NoFile
    /\ earlier = NoEarlierRun

NextProgram ==
    \/ MainStart
    \/ Next
    \/ UpdateKeyMsg
    \/ QuitAfterDone

SpecProgram == InitProgram /\ [][NextProgram]_vars

(***************************************************************************)
(* The loop on runs of rows that share a '#' prefix.                       *)
(***************************************************************************)
\* rows of a file in a chain
MaxChainRows == 3

SrcHashSeven == <<"A", "#", "7">>

\* rows "A#n" with and without a filled target cell, and a row that
\* interrupts the chain
ChainRows ==
    {<<SrcHashNum>>, <<SrcHashSeven>>, <<SrcHashSeven, TgtOld>>, <<SrcPlain>>}

\* the files: chains of rows, and the files that take the loop through
\* every branch
ChainSheets ==
    {<<HeaderRow>> \o d : d \in [1..MaxChainRows -> ChainRows]}
    \cup ProgramSheets

InitChain ==
    /\ rows \in ChainSheets
    /\ \E cc \in MainColumnChoices : sourceIndex = cc[1] /\ targetIndex = cc[2]
    /\ translationMode \in TranslationModes
    /\ sheet = [k \in 0..(Len(rows) - 1) |->
                  [c \in 0..(Len(HeaderRow) - 1) |-> InitialCell(rows, k, c)]]
    /\ i = 0
    /\ previousText = <<>>
    /\ previousTranslation = <<>>
    /\ skippedCount = 0
    /\ calls = <<>>
    /\ writes = <<>>
    /\ sent = <<>>
    /\ pc = "loop"
    /\ patternCache = EmptyCache
    /\ input = <<>>
    /\ output = NoOutput
    /\ NoMain

SpecChain == InitChain /\ [][Next]_vars

(***************************************************************************)
(* Vocabulary of the properties.                                           *)
(***************************************************************************)
\* the text before the first c of s, and the text after it
BeforeFirst(s, c) == SubSeq(s, 1, Index(s, c) - 1)
AfterFirst(s, c) == SubSeq(s, Index(s, c) + 1, Len(s))

\* the trimmed source text of row r, for a row that has a source cell
SourceText(r) == TrimSpace(Cell(Row(r), sourceIndex))

\* positions in the logs that belong to row r
WritesOf(r) == {k \in 1..Len(writes) : writes[k].row = r}
CallsOf(r) == {k \in 1..Len(calls) : calls[k].row = r}

\* this step makes no call / exactly one call of the Translation Port
StepNoCall == calls' = calls
StepOneCall == Len(calls') = Len(calls) + 1 /\ SubSeq(calls', 1, Len(calls)) = calls

\* this step writes value v into the target cell of row i and nothing else
StepWrites(v) ==
    writes' = Append(writes, [row |-> i, col |-> targetIndex, val |-> v])

\* the history (P#x, T#y) and a current translatable row P#...
HashCase ==
    /\ ReachesTranslation
    /\ Contains(previousText, "#") /\ Contains(previousTranslation, "#")
    /\ Contains(Text, "#")
    /\ BeforeFirst(Text, "#") = BeforeFirst(previousText, "#")

LastIndex(s, c) ==
    IF Contains(s, c)
    THEN CHOOSE k \in 1..Len(s) : s[k] = c /\ \A j \in (k + 1)..Len(s) : s[j] # c
    ELSE 0

\* the text before the last c of s, and the text after it
BeforeLast(s, c) == SubSeq(s, 1, LastIndex(s, c) - 1)
AfterLast(s, c) == SubSeq(s, LastIndex(s, c) + 1, Len(s))

\* s has the form B_n with n an integer
UnderscoreNumberForm(s) == Contains(s, "_") /\ AtoiOk(AfterLast(s, "_"))

\* row i - 1 was freshly translated: the last call is the successful
\* full-text call of that row and its result is the history
PreviousRowFreshlyTranslated ==
    /\ i >= 2
    /\ Len(Row(i - 1)) > sourceIndex
    /\ previousText = SourceText(i - 1)
    /\ calls # <<>>
    /\ Last(calls) = [row |-> i - 1, arg |-> previousText, err |-> FALSE,
                      val |-> previousTranslation]

\* consecutive translatable rows B_m, B_n, the first freshly translated to T_m
UnderscoreCase ==
    /\ ReachesTranslation
    /\ PreviousRowFreshlyTranslated
    /\ UnderscoreNumberForm(Text) /\ UnderscoreNumberForm(previousText)
    /\ BeforeLast(Text, "_") = BeforeLast(previousText, "_")
    /\ HasSuffix(previousTranslation, <<"_">> \o AfterLast(previousText, "_"))

\* T of the previous translation T_m
TranslatedBase ==
    SubSeq(previousTranslation, 1,
           Len(previousTranslation) - Len(AfterLast(previousText, "_")) - 1)

UnderscoreReused ==
    /\ StepNoCall
    /\ StepWrites(TranslatedBase \o <<"_">> \o AfterLast(Text, "_"))

C4_FailedCallLeavesCell ==
    \A k \in 1..Len(calls) : calls[k].err => WritesOf(calls[k].row) = {}

StepFullCallFailed ==
    /\ StepOneCall
    /\ Last(calls').arg = Text
    /\ Last(calls').err

TooShort(t) == ByteLen(t) < 3 \/ HasPrefix(t, <<"!">>)
Numeric(t) == AtoiOk(t)
WrappedIn(t, w) == HasPrefix(t, w) /\ HasSuffix(t, w)
Placeholder(t) ==
    \/ WrappedIn(t, <<"#", "#">>)
    \/ WrappedIn(t, <<"#">>) /\ Len(t) > 1
    \/ WrappedIn(t, <<"@">>)
    \/ meaninglessAlarmRegex(t)
NoOpDefault(t) == ToLower(t) = <<"t", "e", "x", "t">>
Translatable(t) == ~TooShort(t) /\ ~Numeric(t) /\ ~Placeholder(t) /\ ~NoOpDefault(t)

\* row r has a source cell
HasSourceCell(r) == Len(Row(r)) > sourceIndex

\* the target cell of the row, trimmed, stripped of surrounding quotes and
\* lowercased, is neither empty nor "text"
TargetFilled(row) ==
    /\ Len(row) > targetIndex
    /\ ToLower(TrimQuotes(TrimSpace(Cell(row, targetIndex))))
         \notin {<<>>, <<"t", "e", "x", "t">>}

\* the row the loop is at is a data row with a translatable source text
AtTranslatableRow == InLoop /\ i > 0 /\ HasSourceCell(i) /\ Translatable(Text)

\* the row the loop is at is the header, has no source cell, is of a skip or
\* copy class, or is stopped by the quick-mode gate
AtSkipOrCopyRow ==
    /\ InLoop
    /\ \/ i = 0
       \/ ~HasSourceCell(i)
       \/ ~Translatable(Text)
       \/ translationMode = "quick" /\ TargetFilled(Row(i))

\* the step skips the row at the quick-mode gate
StepQuickSkipped ==
    /\ StepNoCall
    /\ writes' = writes
    /\ skippedCount' = skippedCount + 1

\* the step takes the row on to the translation strategies
StepTranslated ==
    /\ skippedCount' = skippedCount
    /\ StepOneCall \/ Len(writes') = Len(writes) + 1

(***************************************************************************)
(* C6. Skip and copy rows are terminal: on the header row, a row without a *)
(* source cell, a TooShort, Numeric, Placeholder or NoOpDefault row and a  *)
(* row stopped by the quick-mode gate, the step makes no Translation Port  *)
(* call and leaves (previousText, previousTranslation) unchanged.          *)
(***************************************************************************)
C6_SkipAndCopyFrame ==
    [][ AtSkipOrCopyRow
        => StepNoCall /\ UNCHANGED <<previousText, previousTranslation>> ]_vars

\* rows "abc" (translated), "123" (copied): the history of row 1 is still
\* there after the copy
C6_Witness ==
    /\ i = 3
    /\ Row(1) = <<SrcPlain, TgtEmpty>> /\ Row(2) = <<SrcNumeral, TgtOld>>
    /\ Len(calls) = 1 /\ ~calls[1].err
    /\ previousText = SrcPlain
    /\ previousTranslation = calls[1].val
    /\ Len(writes) = 2 /\ writes[2].val = SrcNumeral

(***************************************************************************)
(* C7. Quick-mode eligibility: in quick mode a translatable row is skipped *)
(* if and only if its target cell, trimmed, stripped of surrounding quotes *)
(* and lowercased, is non-empty and not "text". A missing or empty target, *)
(* "Text" and a quoted "TEXT" are eligible; " Old" is skipped.             *)
(***************************************************************************)
C7_QuickModeEligibility ==
    [][ (AtTranslatableRow /\ translationMode = "quick")
        => /\ IF TargetFilled(Row(i)) THEN StepQuickSkipped ELSE StepTranslated
           /\ Len(Row(i)) <= targetIndex => StepTranslated
           /\ (/\ Len(Row(i)) > targetIndex
               /\ Cell(Row(i), targetIndex) \in {TgtEmpty, TgtDefault, TgtQuotedUp})
                => StepTranslated
           /\ (Len(Row(i)) > targetIndex /\ Cell(Row(i), targetIndex) = TgtOld)
                => StepQuickSkipped ]_vars

\* quick mode, rows ("abc", "\"TEXT\"") and ("abc", " Old"): the first is
\* translated, the second skipped
C7_Witness ==
    /\ translationMode = "quick"
    /\ i = 3
    /\ Row(1) = <<SrcPlain, TgtQuotedUp>> /\ Row(2) = <<SrcPlain, TgtOld>>
    /\ CallsOf(1) # {} /\ WritesOf(1) # {}
    /\ CallsOf(2) = {} /\ WritesOf(2) = {}
    /\ skippedCount = 1

(***************************************************************************)
(* C8, as claimed. Quick mode never overwrites an existing translation: in *)
(* a quick-mode run no row whose target cell holds content (non-empty, not *)
(* the "text" marker) is written, whatever its source text.                *)
(***************************************************************************)
C8_AsClaimed ==
    translationMode = "quick"
        => \A k \in 1..Len(writes) : ~TargetFilled(Row(writes[k].row))

(***************************************************************************)
(* C8, amended. In a quick-mode run a row with a translatable source text  *)
(* whose target cell holds content is never written; a TooShort, Numeric   *)
(* or Placeholder row is written with its source text in quick mode too,   *)
(* whatever its target cell holds.                                         *)
(***************************************************************************)
C8_QuickModeKeepsTranslations ==
    translationMode = "quick"
        => \A r \in 1..(i - 1) :
             (HasSourceCell(r) /\ TargetFilled(Row(r)))
                => IF Translatable(SourceText(r))
                   THEN /\ WritesOf(r) = {}
                        /\ sheet[r][targetIndex] = Cell(Row(r), targetIndex)
                   ELSE \A k \in WritesOf(r) : writes[k].val = SourceText(r)

\* quick mode, rows ("#A#", " Old") and ("abc", " Old"): the placeholder is
\* copied over " Old", the translatable row keeps " Old"
C8_Witness ==
    /\ translationMode = "quick"
    /\ i = 3
    /\ Row(1) = <<SrcPlHash, TgtOld>> /\ Row(2) = <<SrcPlain, TgtOld>>
    /\ sheet[1][targetIndex] = SrcPlHash
    /\ sheet[2][targetIndex] = TgtOld
    /\ WritesOf(2) = {}

(***************************************************************************)
(* C9. A row whose trimmed source text equals "text" case-insensitively is *)
(* skipped in both modes: no Translation Port call is made for it and its  *)
(* target cell is not written.                                             *)
(***************************************************************************)
C9_DefaultTextSkipped ==
    \A r \in 1..(i - 1) :
        (HasSourceCell(r) /\ NoOpDefault(SourceText(r)))
            => /\ CallsOf(r) = {}
               /\ WritesOf(r) = {}
               /\ sheet[r] = [c \in 0..(Len(HeaderRow) - 1) |-> InitialCell(rows, r, c)]

\* rows "abc" (translated) and " TExt": the second is passed over
C9_Witness ==
    /\ i = 3
    /\ Row(1) = <<SrcPlain, TgtDefault>> /\ Row(2) = <<SrcDefault>>
    /\ Len(calls) = 1 /\ calls[1].row = 1
    /\ Len(writes) = 1 /\ writes[1].row = 1
    /\ sheet[2][targetIndex] = <<>>

(***************************************************************************)
(* C10. Placeholder rows are copied, never translated: a data row whose    *)
(* trimmed source text is wrapped in ##..##, in #..# (length > 1), in @..@ *)
(* or matches the alarm pattern has its target cell written once, with     *)
(* exactly the trimmed source text, and no Translation Port call.          *)
(***************************************************************************)
C10_PlaceholderCopied ==
    \A r \in 1..(i - 1) :
        (HasSourceCell(r) /\ Placeholder(SourceText(r)))
            => /\ CallsOf(r) = {}
               /\ Cardinality(WritesOf(r)) = 1
               /\ \A k \in WritesOf(r) :
                    writes[k] = [row |-> r, col |-> targetIndex, val |-> SourceText(r)]
               /\ sheet[r][targetIndex] = SourceText(r)

\* rows "Alarm 1: " and "@b@": both copied, the first trimmed, no call
C10_Witness ==
    /\ i = 3
    /\ Row(1) = <<SrcPlAlarm>> /\ Row(2) = <<SrcPlAt>>
    /\ calls = <<>>
    /\ Len(writes) = 2
    /\ writes[1].val = <<"A", "l", "a", "r", "m", " ", "1", ":">>
    /\ writes[2].val = SrcPlAt

(***************************************************************************)
(* C11. TooShort rows are copied verbatim: a data row whose trimmed source *)
(* text is shorter than 3 (len, the bytes of the text) or starts with '!', *)
(* whatever else it is (empty, a placeholder, a numeral), has its target   *)
(* cell written once, with exactly the trimmed source text, and no         *)
(* Translation Port call.                                                  *)
(***************************************************************************)
C11_TooShortCopied ==
    \A r \in 1..(i - 1) :
        (HasSourceCell(r) /\ TooShort(SourceText(r)))
            => /\ CallsOf(r) = {}
               /\ Cardinality(WritesOf(r)) = 1
               /\ \A k \in WritesOf(r) :
                    writes[k] = [row |-> r, col |-> targetIndex, val |-> SourceText(r)]
               /\ sheet[r][targetIndex] = SourceText(r)

\* quick mode, rows ("!abc", " Old") and "##": both copied, the first over
\* " Old", no call
C11_Witness ==
    /\ translationMode = "quick"
    /\ i = 3
    /\ Row(1) = <<SrcBang, TgtOld>> /\ Row(2) = <<SrcPlHash2>>
    /\ calls = <<>>
    /\ Len(writes) = 2
    /\ writes[1] = [row |-> 1, col |-> targetIndex, val |-> SrcBang]
    /\ writes[2] = [row |-> 2, col |-> targetIndex, val |-> SrcPlHash2]

(***************************************************************************)
(* C12, as claimed. A source cell that is empty after trimming is treated  *)
(* as absent: the row's target cell is not written, the row's cells are as *)
(* they were read, and no Translation Port call is made for it.            *)
(***************************************************************************)
C12_EmptySourceAsAbsent ==
    \A r \in 1..(i - 1) :
        (HasSourceCell(r) /\ SourceText(r) = <<>>)
            => /\ CallsOf(r) = {}
               /\ WritesOf(r) = {}
               /\ sheet[r] = [c \in 0..(Len(HeaderRow) - 1) |-> InitialCell(rows, r, c)]

(***************************************************************************)
(* C13. Numeric rows are copied verbatim: a data row whose trimmed source  *)
(* text parses entirely as an integer (an optional sign and digits, within *)
(* the range of int) has its target cell written once, with exactly that   *)
(* text, and no Translation Port call.                                     *)
(***************************************************************************)
C13_NumericCopied ==
    \A r \in 1..(i - 1) :
        (HasSourceCell(r) /\ Numeric(SourceText(r)))
            => /\ CallsOf(r) = {}
               /\ Cardinality(WritesOf(r)) = 1
               /\ \A k \in WritesOf(r) :
                    writes[k] = [row |-> r, col |-> targetIndex, val |-> SourceText(r)]
               /\ sheet[r][targetIndex] = SourceText(r)

\* quick mode, rows "-12" and ("123", " Old"): both copied, the second over
\* " Old", no call
C13_Witness ==
    /\ translationMode = "quick"
    /\ i = 3
    /\ Row(1) = <<SrcSigned>> /\ Row(2) = <<SrcNumeral, TgtOld>>
    /\ calls = <<>>
    /\ Len(writes) = 2
    /\ writes[1] = [row |-> 1, col |-> targetIndex, val |-> SrcSigned]
    /\ writes[2] = [row |-> 2, col |-> targetIndex, val |-> SrcNumeral]
    /\ sheet[2][targetIndex] = SrcNumeral

(***************************************************************************)
(* C14. extractBaseAndSuffix splits on the last underscore: for a text     *)
(* with at least one '_' it returns (the text before the last '_', the     *)
(* text after the last '_'), and base + "_" + suffix is the text; for a    *)
(* text without '_' it returns (text, "").                                 *)
(***************************************************************************)
C14_SplitsOnLastUnderscore ==
    output.fn = "extractBaseAndSuffix"
        => IF Contains(input, "_")
           THEN /\ output.base = BeforeLast(input, "_")
                /\ output.suffix = AfterLast(input, "_")
                /\ output.base \o <<"_">> \o output.suffix = input
                /\ ~Contains(output.suffix, "_")
           ELSE /\ output.base = input
                /\ output.suffix = <<>>

\* "a_a_1" gives ("a_a", "1")
C14_Witness ==
    /\ input = <<"a", "_", "a", "_", "1">>
    /\ output = [fn     |-> "extractBaseAndSuffix",
                 base   |-> <<"a", "_", "a">>,
                 suffix |-> <<"1">>]

\* s is an optional sign followed by 1 to 18 digits: each such text parses
\* as an integer, and so does no other text of the lengths looked at here
ParsesAsInteger(s) ==
    \E sign \in {<<>>, <<"+">>, <<"-">>} :
        /\ HasPrefix(s, sign)
        /\ Len(s) > Len(sign)
        /\ Len(s) - Len(sign) < Len(MaxIntDigits)
        /\ \A k \in (Len(sign) + 1)..Len(s) : s[k] \in Digits

(***************************************************************************)
(* C15. hasUnderscoreNumberPattern(text) is true if and only if splitting  *)
(* text on '_' yields at least 2 parts (text contains '_') and the last    *)
(* part parses as an integer; "", "_", "a_" and "a_a" are false, "_1" is   *)
(* true.                                                                   *)
(***************************************************************************)
C15_UnderscoreNumberPattern ==
    output.fn = "hasUnderscoreNumberPattern"
        => /\ output.result
                = (Contains(input, "_") /\ ParsesAsInteger(AfterLast(input, "_")))
           /\ input \in {<<>>, <<"_">>, <<"a", "_">>, <<"a", "_", "a">>}
                => ~output.result
           /\ input = <<"_", "1">> => output.result

\* "a_-11" has the pattern
C15_Witness ==
    /\ input = <<"a", "_", "-", "1", "1">>
    /\ output = [fn |-> "hasUnderscoreNumberPattern", result |-> TRUE]

(***************************************************************************)
(* Digit runs and placeholders, by their positions in the text.            *)
(***************************************************************************)
\* a maximal run of digits of s starts at position k, ends at position e
IsRunStart(s, k) == s[k] \in Digits /\ (k = 1 \/ s[k - 1] \notin Digits)
IsRunEnd(s, e) == s[e] \in Digits /\ (e = Len(s) \/ s[e + 1] \notin Digits)

RunStarts(s) == {k \in 1..Len(s) : IsRunStart(s, k)}

\* the end of the run that starts at k
RunEnd(s, k) ==
    CHOOSE e \in k..Len(s) : IsRunEnd(s, e) /\ \A j \in k..e : s[j] \in Digits

\* the n-th smallest element of a set of positions
Nth(positions, n) ==
    CHOOSE k \in positions : Cardinality({m \in positions : m < k}) = n - 1

\* the maximal digit runs of s, from left to right
DigitRuns(s) ==
    [n \in 1..Cardinality(RunStarts(s)) |->
        SubSeq(s, Nth(RunStarts(s), n), RunEnd(s, Nth(RunStarts(s), n)))]

\* s with every maximal digit run replaced by token
RunsReplaced(s, token) ==
    Flatten([k \in 1..Len(s) |->
                IF s[k] \notin Digits THEN <<s[k]>>
                ELSE IF IsRunStart(s, k) THEN token
                ELSE <<>>])

\* positions of s where the placeholder "{{N}}" starts
TokenStarts(s) ==
    {k \in 1..Len(s) : k + Len(TokenN) - 1 <= Len(s)
                       /\ SubSeq(s, k, k + Len(TokenN) - 1) = TokenN}

\* position k of s lies in a placeholder that started before k
InsideToken(s, k) == \E t \in TokenStarts(s) : t < k /\ k <= t + Len(TokenN) - 1

\* s with its n-th placeholder replaced by numbers[n], for every n
FillTokens(s, numbers) ==
    Flatten([k \in 1..Len(s) |->
                IF k \in TokenStarts(s)
                THEN numbers[Cardinality({t \in TokenStarts(s) : t < k}) + 1]
                ELSE IF InsideToken(s, k) THEN <<>>
                ELSE <<s[k]>>])

\* a literal "{{N}}" stands in s in front of a digit
TokenBeforeDigit(s) ==
    \E t \in TokenStarts(s) : \E k \in (t + 1)..Len(s) : s[k] \in Digits

\* normalizeText has been applied to the input; the substitution loop too
Normalized == output.fn \in {"normalizeText", "Substitute"}
Substituted == output.fn = "Substitute"

\* the result of normalizeText is the text with every maximal digit run
\* replaced by "{{N}}", and the runs in order
NormalizedAsClaimed ==
    Normalized
        => /\ output.pattern = RunsReplaced(input, TokenN)
           /\ output.numbers = DigitRuns(input)

\* the loop of the pattern-cache variant is at a data row that passes its
\* tests: a source cell, at least 4 bytes, no integer, no bare alarm number
AtCacheLookup ==
    /\ InLoop /\ i > 0 /\ HasSourceCell(i)
    /\ ByteLen(Text) >= 4
    /\ ~Numeric(Text)
    /\ ~meaninglessAlarmRegex(Text)

\* the pattern and the numbers of a text
PatternOf(t) == RunsReplaced(t, TokenN)
NumbersOf(t) == DigitRuns(t)

C18_AsClaimed ==
    /\ NormalizedAsClaimed
    /\ Substituted => output.text = input

(***************************************************************************)
(* C18, amended. The same for the pattern and the numbers; the             *)
(* substitution reproduces the text exactly when no literal "{{N}}" of the *)
(* text stands in front of one of its digits, so for every text that does  *)
(* not contain "{{N}}".                                                    *)
(***************************************************************************)
C18_NormalizeRoundTrip ==
    /\ NormalizedAsClaimed
    /\ Substituted => (output.text = input <=> ~TokenBeforeDigit(input))
    /\ (Substituted /\ TokenStarts(input) = {}) => output.text = input

\* "1 23": pattern "{{N}} {{N}}", numbers ("1", "23"), and back to "1 23"
C18_Witness ==
    /\ input = <<"1", " ", "2", "3">>
    /\ output = [fn      |-> "Substitute",
                 pattern |-> TokenN \o <<" ">> \o TokenN,
                 numbers |-> << <<"1">>, <<"2", "3">> >>,
                 text    |-> <<"1", " ", "2", "3">>]

(***************************************************************************)
(* C19, as claimed. The pattern cache is first-writer-wins: once a key is  *)
(* stored in patternCache, the key stays and its value never changes.      *)
(***************************************************************************)
C19_AsClaimed ==
    [][ \A k \in DOMAIN patternCache :
            k \in DOMAIN patternCache' /\ patternCache'[k] = patternCache[k] ]_vars

\* a source text or a translation so far holds a literal "{{N}}"
LiteralTokenSeen(cs) ==
    \E c \in 1..Len(cs) : TokenStarts(cs[c].arg) # {} \/ TokenStarts(cs[c].val) # {}

(***************************************************************************)
(* C19, amended. Once a key is stored in patternCache the key stays, and   *)
(* its value changes only at a row with that pattern whose count of        *)
(* numbers differs from the count of {{N}} in the cached value: the row is *)
(* translated afresh and the value is replaced by the pattern of the new   *)
(* translation. That needs a literal "{{N}}" in a source text or in a      *)
(* translation; without one the first value stays for the rest of the run. *)
(***************************************************************************)
C19_CacheValueStable ==
    [][ \A k \in DOMAIN patternCache :
            /\ k \in DOMAIN patternCache'
            /\ patternCache'[k] # patternCache[k]
                 => /\ AtCacheLookup
                    /\ k = PatternOf(Text)
                    /\ Cardinality(TokenStarts(patternCache[k])) # Len(NumbersOf(Text))
                    /\ StepOneCall
                    /\ ~Last(calls').err
                    /\ patternCache'[k] = PatternOf(Last(calls').val)
                    /\ LiteralTokenSeen(calls') ]_vars

\* rows "a 12", "a 34", "a 12": one call, for row 1; rows 2 and 3 are taken
\* from the cache, which holds what row 1 stored
C19_Witness ==
    /\ i = 4
    /\ Row(1) = <<SrcAlarm12>> /\ Row(2) = <<SrcAlarm34>> /\ Row(3) = <<SrcAlarm12>>
    /\ Len(calls) = 1
    /\ PatternOf(calls[1].val) = patternCache[PatternOf(SrcAlarm12)]
    /\ Len(writes) = 3

(***************************************************************************)
(* C20. Rows are processed in ascending order, each once: the writes to    *)
(* target cells occur in strictly increasing row index, so a row's target  *)
(* cell is written at most once in a run; every write is to the target     *)
(* column of a data row the loop has been at, never to the header row.     *)
(***************************************************************************)
C20_WritesAscend ==
    /\ \A j, k \in 1..Len(writes) : j < k => writes[j].row < writes[k].row
    /\ \A k \in 1..Len(writes) :
         /\ writes[k].row \in 1..(i - 1)
         /\ writes[k].col = targetIndex
    /\ \A r \in 0..(totalRows - 1) : Cardinality(WritesOf(r)) <= 1
    /\ WritesOf(0) = {}
    /\ sheet[0] = [c \in 0..(Len(HeaderRow) - 1) |-> InitialCell(rows, 0, c)]
    /\ \A j, k \in 1..Len(calls) : j < k => calls[j].row < calls[k].row

\* both data rows written, row 1 before row 2
C20_Witness ==
    /\ pc = "done"
    /\ Len(writes) = 2
    /\ writes[1].row = 1 /\ writes[2].row = 2
    /\ Len(calls) = 2

(***************************************************************************)
(* C21  Determinism.  Two runs of iterateAndTranslate on the same rows,    *)
(* columns and mode, each entered with the empty history and served by     *)
(* the same function from texts to results, make the same translateText    *)
(* calls in the same order and the same SetCellValue calls in the same     *)
(* order: at every point of the second run its calls and writes are the    *)
(* first calls and writes of the first run, and at its end they are all    *)
(* of them.                                                                *)
(***************************************************************************)
IsPrefix(s, t) == Len(s) <= Len(t) /\ SubSeq(t, 1, Len(s)) = s

InSecondRun == earlier.fixed /\ earlier.runs = 1

C22_NoRetry ==
    /\ \A r \in 0..(totalRows - 1) : Cardinality(CallsOf(r)) <= 1
    /\ \A k \in 1..Len(calls) : calls[k].row >= 1 /\ calls[k].row < i
    /\ \A j, k \in 1..Len(calls) : j < k => calls[j].row < calls[k].row
    /\ Len(calls) <= totalRows - 1

\* the call of row 1 failed, the loop went on, and row 2 got its own call
C22_Witness ==
    /\ pc = "done"
    /\ Len(calls) = 2
    /\ calls[1].row = 1 /\ calls[1].err
    /\ calls[2].row = 2 /\ ~calls[2].err
    /\ WritesOf(1) = {}

(***************************************************************************)
(* C25  API key source priority.  getAPIKey returns the OPENAI_API_KEY     *)
(* environment variable when it is not empty; otherwise the trimmed        *)
(* content of api-key.txt when that file is readable and not empty after   *)
(* trimming; otherwise what was typed at the prompt, an empty answer being *)
(* an error; and no source is looked at after one has given the key.       *)
(* As claimed, this leaves out the failure of os.Executable: with the      *)
(* variable empty and the path of the executable not to be had, getAPIKey  *)
(* returns an error and looks neither at the file nor at the prompt.       *)
(***************************************************************************)
KeyReturned == output.fn = "getAPIKey"

Asked(source) == \E k \in 1..Len(output.asked) : output.asked[k] = source

\* api-key.txt is there, readable, and holds more than white space
FileYieldsKey ==
    /\ input.keyFile.stat /\ input.keyFile.read
    /\ TrimSpace(input.keyFile.content) # <<>>

Returns(key) == output.err = "" /\ output.key = key

\* the three sources in the order of the claim, when the executable's
\* directory is known (known = TRUE), or whatever os.Executable says
PriorityOrder(known) ==
    /\ input.envKey # <<>> =>
          Returns(input.envKey) /\ ~Asked("file") /\ ~Asked("prompt")
    /\ input.envKey = <<>> /\ known /\ FileYieldsKey =>
          Returns(TrimSpace(input.keyFile.content)) /\ ~Asked("prompt")
    /\ input.envKey = <<>> /\ known /\ ~FileYieldsKey =>
          /\ Asked("prompt")
          /\ ~input.prompt.err /\ input.prompt.value # <<>> =>
                Returns(input.prompt.value)
          /\ input.prompt.err \/ input.prompt.value = <<>> =>
                output.err # ""

Interrupted ==
    /\ ui.status = "quit"
    /\ ~ui.done
    /\ mainErr # "Error running program"

\* the writes made before the key: those of the rows up to the last one
\* the program p has shown the progress of
WritesBeforeKey == {k \in 1..Len(writes) : writes[k].row < ui.percent[1]}

C23_PartialWorkKept ==
    Interrupted =>
        \A k \in WritesBeforeKey :
            /\ sheet[writes[k].row][writes[k].col] = writes[k].val
            /\ saved # NoFile =>
                  saved.cells[writes[k].row][writes[k].col] = writes[k].val

\* a key was pressed after the first data row was written; the loop wrote
\* the second row while the file was written out, and the closed file
\* holds the first write and not the second
C23_Witness ==
    /\ Interrupted
    /\ saved.closed
    /\ Len(writes) = 2
    /\ WritesBeforeKey = {1}
    /\ saved.cells[writes[1].row][writes[1].col] = writes[1].val
    /\ saved.cells[writes[2].row][writes[2].col] # writes[2].val

(***************************************************************************)
(* C24  Configuration errors abort before any row processing.  When        *)
(* getAPIKey returns an error, validateAPIKey returns an error, or no      *)
(* .xlsx file without the prefix "translated-" is found, main ends in      *)
(* displayErrorAndExit with no file opened, the loop never started, no     *)
(* program p, no translateText call, no SetCellValue and no output file;   *)
(* and the loop is only ever started with a key and a chosen file.         *)
(***************************************************************************)
ConfigurationErrors ==
    {"could not get executable path", "could not get API key from user",
     "API key cannot be empty", "API key validation failed",
     "No .xlsx files found to translate."}

NothingProcessed ==
    /\ pc = "idle"
    /\ rows = <<>>
    /\ ui = NoProgram
    /\ calls = <<>>
    /\ writes = <<>>
    /\ sent = <<>>
    /\ saved = NoFile

C24_ConfigErrorsAbort ==
    /\ mainErr \in ConfigurationErrors => mainPc = "exit1" /\ NothingProcessed
    /\ mainPc \in {"getAPIKey", "validateAPIKey", "glob", "selectFile"} =>
          NothingProcessed
    /\ ~NothingProcessed =>
          /\ apiKey # <<>>
          /\ fileName \in files
          /\ ~HasPrefix(fileName, TranslatedDash)

\* a key was had and found valid, the directory held .xlsx files, all of
\* them outputs of earlier runs, and main ended with the error
C24_Witness ==
    /\ mainErr = "No .xlsx files found to translate."
    /\ mainPc = "exit1"
    /\ apiKey # <<>>
    /\ files = {NameTranslated}
    /\ NothingProcessed

(***************************************************************************)
(* C27  Output never feeds back as input.  The output file is named        *)
(* "translated-" + the input name without its extension + ".xlsx", or      *)
(* ".csv" with -csv; no file whose name starts with "translated-" is       *)
(* offered; so in the directory with the output file added, the output     *)
(* file is not among the files offered.                                    *)
(***************************************************************************)
\* name starts with the characters of "translated-", compared one by one
StartsWithTranslatedDash(name) ==
    /\ Len(name) >= Len(TranslatedDash)
    /\ \A k \in 1..Len(TranslatedDash) : name[k] = TranslatedDash[k]

\* the name without its last five characters, ".xlsx" for a file offered
WithoutXlsx(name) == SubSeq(name, 1, Len(name) - Len(DotXlsx))

C27_OutputNeverInput ==
    /\ output.fn = "filteredFiles" =>
          \A f \in output.offered :
              f \in input.dir /\ ~StartsWithTranslatedDash(f)
    /\ output.fn = "newFileName" =>
          /\ output.name = TranslatedDash \o WithoutXlsx(output.fileName)
                               \o (IF input.csv THEN DotCsv ELSE DotXlsx)
          /\ StartsWithTranslatedDash(output.name)
          /\ output.name \notin filteredFiles(Glob(input.dir \cup {output.name}))

\* "a.b.xlsx" is chosen in a directory that holds an earlier output, and
\* the output is named "translated-a.b.xlsx"
C27_Witness ==
    /\ output.fn = "newFileName"
    /\ NameTranslated \in input.dir
    /\ output.fileName = NameAB
    /\ ~input.csv
    /\ output.name = TranslatedDash \o NameAB

(***************************************************************************)
(* C26. Every Translation Port call ends, so for every finite row list the *)
(* driver eventually finishes and emits the done message, even when the    *)
(* backend never answers a request.                                        *)
(***************************************************************************)
C26_DriverFinishes ==
    <>(pc = "done" /\ sent # <<>> /\ sent[Len(sent)] = doneMsg)

(***************************************************************************)
(* C28. Classification is first-match-wins in the order Header, TooShort,  *)
(* Numeric, Placeholder, NoOpDefault, Translatable: for every row with a   *)
(* source text, the action the loop takes (skip for Header and             *)
(* NoOpDefault, copy verbatim for TooShort, Numeric and Placeholder,       *)
(* proceed to translation for Translatable) is the action of the class     *)
(* this rule order assigns.                                                *)
(***************************************************************************)
\* the class the rule order of the claim assigns to the row the loop is at
ClassOfRow ==
    IF i = 0 THEN "Header"
    ELSE IF TooShort(Text) THEN "TooShort"
    ELSE IF Numeric(Text) THEN "Numeric"
    ELSE IF Placeholder(Text) THEN "Placeholder"
    ELSE IF NoOpDefault(Text) THEN "NoOpDefault"
    ELSE "Translatable"

\* the tags of the log messages the step sends
StepLogTags ==
    {sent'[k].tag : k \in {n \in (Len(sent) + 1)..Len(sent') : sent'[n].kind = "log"}}

\* the log messages of the translation stage: the quick-mode gate, the two
\* reuse strategies and the calls
TranslationStageTags ==
    {"Quick mode: skipping row", "Reused prefix for", "Reused base for",
     "Translating suffix", "Translating"}

\* the step passes the row over
StepSkipsRow ==
    /\ StepNoCall
    /\ writes' = writes
    /\ skippedCount' = skippedCount
    /\ StepLogTags = {}

\* the step copies the source text into the target cell
StepCopiesRow ==
    /\ StepNoCall
    /\ StepWrites(Text)
    /\ skippedCount' = skippedCount
    /\ StepLogTags \cap TranslationStageTags = {}

\* the step takes the row to the translation stage
StepProceedsToTranslation == StepLogTags \cap TranslationStageTags # {}

C28_FirstMatchWins ==
    [][ (InLoop /\ (i = 0 \/ HasSourceCell(i)))
        => /\ ClassOfRow \in {"Header", "NoOpDefault"} => StepSkipsRow
           /\ ClassOfRow \in {"TooShort", "Numeric", "Placeholder"} => StepCopiesRow
           /\ ClassOfRow = "Translatable" => StepProceedsToTranslation ]_vars

\* rows "##" and "7": the rule order of the claim makes both TooShort, the
\* loop takes the first by its placeholder branch and the second by its
\* short-text branch, and both are copied
C28_Witness ==
    /\ i = 3
    /\ Row(1) = <<SrcPlHash2>> /\ Row(2) = <<SrcDigit>>
    /\ calls = <<>>
    /\ Len(writes) = 2
    /\ writes[1].val = SrcPlHash2 /\ writes[2].val = SrcDigit
    /\ \E k \in 1..Len(sent) : sent[k] = logMsg("Copied placeholder", SrcPlHash2)
    /\ \E k \in 1..Len(sent) : sent[k] = logMsg("Copying short text", SrcDigit)

(***************************************************************************)
(* C29. Degenerate decomposition falls back to full translation: when the  *)
(* source texts meet the preconditions of a reuse strategy (same '#'       *)
(* prefix, or same underscore base with numeric trailing segment) but the  *)
(* previous translation holds no '#', respectively no '_', the step makes  *)
(* one Translation Port call on the whole current text and does not        *)
(* combine with the undecomposed previous translation.                     *)
(***************************************************************************)
\* the source texts share the '#' prefix, the previous translation has no '#'
DegenerateHashCase ==
    /\ ReachesTranslation
    /\ Contains(Text, "#") /\ Contains(previousText, "#")
    /\ BeforeFirst(Text, "#") = BeforeFirst(previousText, "#")
    /\ ~Contains(previousTranslation, "#")

\* the source texts share the underscore base and end in numbers, the
\* previous translation has no '_'
DegenerateUnderscoreCase ==
    /\ ReachesTranslation
    /\ UnderscoreNumberForm(Text) /\ UnderscoreNumberForm(previousText)
    /\ BeforeLast(Text, "_") = BeforeLast(previousText, "_")
    /\ ~Contains(previousTranslation, "_")

\* the step makes one call, on the whole text of the row
StepFullCall ==
    /\ StepOneCall
    /\ Last(calls').row = i
    /\ Last(calls').arg = Text

C29_DegenerateFallsBack ==
    [][ (DegenerateHashCase \/ DegenerateUnderscoreCase) => StepFullCall ]_vars

(***************************************************************************)
(* C30. Fixed strategy priority: on every translatable row '#' reuse is    *)
(* tried first, underscore-number reuse only when '#' reuse did not        *)
(* resolve the row, and the full-text call only when neither did; a row    *)
(* eligible for both reuse strategies is resolved by '#' reuse.            *)
(***************************************************************************)
\* the row is eligible for underscore-number reuse: the source texts share
\* the base and end in numbers, and the previous translation holds a '_'
UnderscoreEligible ==
    /\ ReachesTranslation
    /\ UnderscoreNumberForm(Text) /\ UnderscoreNumberForm(previousText)
    /\ BeforeLast(Text, "_") = BeforeLast(previousText, "_")
    /\ Contains(previousTranslation, "_")

\* the step resolves the row by '#' reuse: the prefix is taken from the
\* history, or the text after the '#' alone is sent to the Translation Port
StepByHashReuse ==
    \/ /\ StepNoCall
       /\ "Reused prefix for" \in StepLogTags
       /\ StepWrites(BeforeFirst(previousTranslation, "#") \o <<"#">>
                     \o TrimSpace(AfterFirst(Text, "#")))
    \/ /\ StepOneCall
       /\ "Translating suffix" \in StepLogTags
       /\ Last(calls').arg = TrimSpace(AfterFirst(Text, "#"))

\* the step resolves the row by underscore-number reuse
StepByUnderscoreReuse ==
    /\ StepNoCall
    /\ "Reused base for" \in StepLogTags
    /\ Len(writes') = Len(writes) + 1
    /\ Last(writes').val = BeforeLast(Last(writes').val, "_")
                             \o <<"_">> \o AfterLast(Text, "_")

\* the step resolves the row by a call on the whole text
StepByFullCall == StepFullCall /\ "Translating" \in StepLogTags

C30_StrategyPriority ==
    [][ ReachesTranslation
        => /\ HashCase => StepByHashReuse
           /\ StepByUnderscoreReuse => ~HashCase
           /\ StepByFullCall => ~HashCase /\ ~UnderscoreEligible
           /\ StepByHashReuse \/ StepByUnderscoreReuse \/ StepByFullCall
           /\ ~(StepByHashReuse /\ StepByUnderscoreReuse)
           /\ ~(StepByHashReuse /\ StepByFullCall)
           /\ ~(StepByUnderscoreReuse /\ StepByFullCall) ]_vars

\* rows "A#_1", "A#_1", the first translated to "X#_1": the second row has
\* the '#' prefix and the underscore base of the first, and is resolved by
\* '#' reuse with a call on "_1"
C30_Witness ==
    /\ i = 3
    /\ Row(1) = <<SrcHashUnder>> /\ Row(2) = <<SrcHashUnder>>
    /\ writes[1].val = <<"X", "#", "_", "1">>
    /\ Len(calls) = 2
    /\ calls[2].row = 2 /\ calls[2].arg = <<"_", "1">>
    /\ \E k \in 1..Len(sent) : sent[k] = logMsg("Translating suffix", <<"_", "1">>)
    /\ \A k \in 1..Len(sent) : sent[k].kind = "log" => sent[k].tag # "Reused base for"

(***************************************************************************)
(* C31. No concurrent sheet access: in every interleaving of the driver    *)
(* goroutine, the UI loop and main, the save step (SaveAs, or GetRows in   *)
(* saveAsCSV) never runs while the driver can still execute a              *)
(* SetCellValue, also after the user has quit the UI with a key.           *)
(***************************************************************************)
\* main is inside f.SaveAs or saveAsCSV
SaveRunning == mainPc = "saving"

\* the goroutine of the loop is alive and has rows left
DriverCanStillWrite == pc = "loop" /\ i < totalRows

C31_NoConcurrentSheetAccess == ~(SaveRunning /\ DriverCanStillWrite)

(***************************************************************************)
(* C32. Decisions use only the pre-run snapshot: what the driver decides   *)
(* for a row (absent source cell, class of the source text, quick-mode     *)
(* gate) is decided by the row as it was read before the run, never by a   *)
(* value written during the run, also when the source and the target       *)
(* column are the same column.                                             *)
(***************************************************************************)
\* row r of the list read before the run, and its trimmed source text
SnapshotRow(r) == rows[r + 1]
SnapshotHasSource(r) == Len(SnapshotRow(r)) > sourceIndex
SnapshotText(r) == TrimSpace(SnapshotRow(r)[sourceIndex + 1])

\* the quick-mode gate stops row r, judged on the snapshot
SnapshotGateStops(r) ==
    translationMode = "quick" /\ TargetFilled(SnapshotRow(r))

\* nothing was done for row r: no call, no write
RowUntouched(r) == CallsOf(r) = {} /\ WritesOf(r) = {}

\* row r was copied: one write, of the text v, and no call
RowCopied(r, v) ==
    /\ CallsOf(r) = {}
    /\ Cardinality(WritesOf(r)) = 1
    /\ \A k \in WritesOf(r) : writes[k].val = v

\* row r went to the strategies: a call was made or a cell written for it
RowTaken(r) == CallsOf(r) # {} \/ WritesOf(r) # {}

C32_SnapshotDecides ==
    \A r \in 1..(i - 1) :
        IF ~SnapshotHasSource(r) THEN RowUntouched(r)
        ELSE IF \/ TooShort(SnapshotText(r)) \/ Numeric(SnapshotText(r))
                \/ Placeholder(SnapshotText(r))
             THEN RowCopied(r, SnapshotText(r))
        ELSE IF NoOpDefault(SnapshotText(r)) THEN RowUntouched(r)
        ELSE IF SnapshotGateStops(r) THEN RowUntouched(r)
        ELSE RowTaken(r)

\* source and target are the same column; row 1 " A# 2 " was overwritten
\* with its translation "X# 2", and row 2, the same text, was then resolved
\* against the source text of row 1 as read before the run
C32_Witness ==
    /\ sourceIndex = targetIndex
    /\ i = 3
    /\ Row(1) = <<SrcHashNum>> /\ Row(2) = <<SrcHashNum>>
    /\ sheet[1][sourceIndex] = <<"X", "#", " ", "2">>
    /\ sheet[1][sourceIndex] # SnapshotRow(1)[sourceIndex + 1]
    /\ Len(calls) = 1
    /\ writes[2].val = <<"X", "#", "2">>

(***************************************************************************)
(* C33. Observer protocol: the driver emits exactly one progress message   *)
(* per row (header, skipped and failed rows included) with fraction        *)
(* (i+1)/N, so the fractions lie in (0,1], strictly increase and end at 1; *)
(* the done message is emitted exactly once, at the way out of the row     *)
(* loop, and is the last message the driver sends.                         *)
(***************************************************************************)
IsProgress(m) == m.kind = "progress"
IsDone(m) == m.kind = "done"

\* the progress messages sent so far, in order
ProgressSent == SelectSeq(sent, IsProgress)

\* fraction a is below fraction b (numerator and denominator pairs)
FractionBelow(a, b) == a.num * b.den < b.num * a.den

C33_ObserverProtocol ==
    /\ Len(ProgressSent) = i
    /\ \A k \in 1..Len(ProgressSent) :
         /\ ProgressSent[k].num = k /\ ProgressSent[k].den = totalRows
         /\ 0 < ProgressSent[k].num /\ ProgressSent[k].num <= ProgressSent[k].den
         /\ k > 1 => FractionBelow(ProgressSent[k - 1], ProgressSent[k])
    /\ pc = "loop" => Len(SelectSeq(sent, IsDone)) = 0
    /\ pc = "done"
         => /\ Len(ProgressSent) = totalRows
            /\ ProgressSent[totalRows].num = ProgressSent[totalRows].den
            /\ Len(SelectSeq(sent, IsDone)) = 1
            /\ IsDone(sent[Len(sent)])

\* a finished quick-mode run with a row stopped at the gate and a row whose
\* call failed: three progress messages, then the summary and the done
\* message
C33_Witness ==
    /\ pc = "done"
    /\ totalRows = 3
    /\ skippedCount = 1
    /\ \E k \in 1..Len(sent) : sent[k].kind = "log" /\ sent[k].tag = "ERROR"
    /\ writes = <<>>
    /\ Len(ProgressSent) = 3
    /\ sent[Len(sent)] = doneMsg

(***************************************************************************)
(* C34. Quick-mode skips are counted separately: skippedCount is the       *)
(* number of rows stopped by the quick-mode gate (rows skipped or copied   *)
(* by classification are not counted), and the summary log message is      *)
(* sent exactly once, right before the done message, if and only if the    *)
(* count is greater than 0, and never in full mode.                        *)
(***************************************************************************)
\* row r was stopped by the quick-mode gate: a translatable text with a
\* filled target cell, in quick mode
StoppedAtGate(r) ==
    /\ SnapshotHasSource(r)
    /\ Translatable(SnapshotText(r))
    /\ SnapshotGateStops(r)

\* positions of the summary message among the messages sent
SummariesSent ==
    {k \in 1..Len(sent) :
        sent[k].kind = "log" /\ sent[k].tag = "Skipped rows in quick mode"}

C34_QuickSkipsCounted ==
    /\ skippedCount = Cardinality({r \in 1..(i - 1) : StoppedAtGate(r)})
    /\ translationMode = "full" => skippedCount = 0 /\ SummariesSent = {}
    /\ pc = "loop" => SummariesSent = {}
    /\ pc = "done"
         => /\ skippedCount > 0 => SummariesSent = {Len(sent) - 1}
            /\ skippedCount > 0 => sent[Len(sent) - 1].arg = skippedCount
            /\ skippedCount = 0 => SummariesSent = {}

\* quick mode, rows ("abc", "Old") and ("ab", "Old"): the first is stopped
\* at the gate and counted, the second is copied as a short text and not
\* counted; the summary reports 1
C34_Witness ==
    /\ pc = "done"
    /\ translationMode = "quick"
    /\ sourceIndex # targetIndex
    /\ Row(1) = <<SrcPlain, TgtOld>> /\ Row(2) = <<SrcShort, TgtOld>>
    /\ skippedCount = 1
    /\ sent[Len(sent) - 1] = logMsg("Skipped rows in quick mode", 1)
    /\ Len(writes) = 1 /\ writes[1].row = 2

(***************************************************************************)
(* C35. The driver never waits on the UI: notifications flow from the      *)
(* driver to the UI only, and the driver's way through the rows does not   *)
(* depend on whether the UI takes a message, so the driver can finish all  *)
(* rows even when the UI has stopped processing messages.                  *)
(***************************************************************************)
\* the goroutine of the loop is alive
DriverAlive == pc = "loop"

\* the program p no longer takes messages
ProgramStopped == ui.status = "quit"

UnderscoreStrategyEntered ==
    /\ ReachesTranslation
    /\ ~HashCase
    /\ Contains(Text, "_") /\ ParsesAsInteger(AfterLast(Text, "_"))
    /\ Contains(previousText, "_")
    /\ ParsesAsInteger(AfterLast(previousText, "_"))

C36_UnderscoreReuseNoCall ==
    [][ UnderscoreStrategyEntered
        => /\ AtoiOk(extractBaseAndSuffix(Text).suffix)
           /\ "Translating suffix" \notin StepLogTags
           /\ BeforeLast(Text, "_") = BeforeLast(previousText, "_")
                => StepNoCall /\ StepByUnderscoreReuse
           /\ BeforeLast(Text, "_") # BeforeLast(previousText, "_")
                => StepByFullCall ]_vars

\* rows "B_1", "B_2": the second is written "Y_2" from the history, with
\* the one call of row 1
C36_Witness ==
    /\ i = 3
    /\ Row(1) = <<SrcUnder1>> /\ Row(2) = <<SrcUnder2>>
    /\ Len(calls) = 1 /\ calls[1].row = 1 /\ ~calls[1].err
    /\ Len(writes) = 2
    /\ writes[2].val = BeforeLast(writes[1].val, "_") \o <<"_", "2">>
    /\ Contains(writes[1].val, "_")
    /\ \E k \in 1..Len(sent) : sent[k] = logMsg("Reused base for", SrcUnder2)

(***************************************************************************)
(* C37. Reuse chains cost one call: for a run of k >= 2 consecutive        *)
(* translatable rows P#n1 .. P#nk with the same prefix P and integer       *)
(* suffixes, where the first row's full translation succeeds and contains  *)
(* '#', exactly one Translation Port call is made for the whole run and    *)
(* row j's target cell is written with (translated prefix of row 1) + "#"  *)
(* + nj for every j >= 2.                                                  *)
(***************************************************************************)
\* row r is a translatable row P#n with an integer suffix n
ChainRow(r) ==
    /\ SnapshotHasSource(r)
    /\ Translatable(SnapshotText(r))
    /\ Contains(SnapshotText(r), "#")
    /\ AtoiOk(TrimSpace(AfterFirst(SnapshotText(r), "#")))

\* rows a..b are finished chain rows with one prefix
IsChain(a, b) ==
    /\ 1 <= a /\ a < b /\ b < i
    /\ \A r \in a..b :
         /\ ChainRow(r)
         /\ BeforeFirst(SnapshotText(r), "#") = BeforeFirst(SnapshotText(a), "#")

\* row a was translated in full, with success, to a text holding a '#'
FullyTranslated(a) ==
    /\ Cardinality(CallsOf(a)) = 1
    /\ \A k \in CallsOf(a) :
         /\ calls[k].arg = SnapshotText(a)
         /\ ~calls[k].err
         /\ Contains(calls[k].val, "#")

\* the translation row a got
TranslationOf(a) == calls[CHOOSE k \in CallsOf(a) : TRUE].val

\* rows a+1..b were resolved from the translation of row a without a call
ChainReused(a, b) ==
    \A r \in (a + 1)..b :
        /\ CallsOf(r) = {}
        /\ Cardinality(WritesOf(r)) = 1
        /\ \A k \in WritesOf(r) :
             writes[k].val = BeforeFirst(TranslationOf(a), "#") \o <<"#">>
                               \o TrimSpace(AfterFirst(SnapshotText(r), "#"))

\* the claim as stated, for every run of translatable rows
C37_AsClaimed ==
    \A a \in 1..(i - 1) : \A b \in 1..(i - 1) :
        (IsChain(a, b) /\ FullyTranslated(a)) => ChainReused(a, b)

\* the claim for the runs whose rows pass the quick-mode gate
C37_ReuseChainOneCall ==
    \A a \in 1..(i - 1) : \A b \in 1..(i - 1) :
        (/\ IsChain(a, b)
         /\ FullyTranslated(a)
         /\ \A r \in (a + 1)..b : ~SnapshotGateStops(r))
            => ChainReused(a, b)

\* rows " A# 2 ", "A#7", "A#7": one call, for row 1, answered "X# 2"; rows
\* 2 and 3 are both written "X#7"
C37_Witness ==
    /\ i = 4
    /\ Row(1) = <<SrcHashNum>>
    /\ Row(2) = <<SrcHashSeven>> /\ Row(3) = <<SrcHashSeven>>
    /\ Len(calls) = 1
    /\ calls[1] = [row |-> 1, arg |-> <<"A", "#", " ", "2">>, err |-> FALSE,
                   val |-> <<"X", "#", " ", "2">>]
    /\ Len(writes) = 3
    /\ writes[2].val = <<"X", "#", "7">> /\ writes[3].val = <<"X", "#", "7">>

(***************************************************************************)
(* C38. History tracks the last saved row, not the adjacent row: at the    *)
(* start of processing row i, (previousText, previousTranslation) is the   *)
(* (trimmed source text, value written to the target cell) of the greatest *)
(* row j < i whose processing reached the save step, or ("", "") if there  *)
(* is none; so a reuse strategy can fire against a non-adjacent earlier    *)
(* row when the rows in between were skipped, copied or failed.            *)
(***************************************************************************)
\* the finished rows that reached the save step: rows taken to the
\* strategies whose target cell was written
SavedRows ==
    {j \in 1..(i - 1) :
        /\ SnapshotHasSource(j)
        /\ Translatable(SnapshotText(j))
        /\ WritesOf(j) # {}}

LastSavedRow == CHOOSE j \in SavedRows : \A k \in SavedRows : k <= j

C38_HistoryIsLastSavedRow ==
    IF SavedRows = {}
    THEN previousText = <<>> /\ previousTranslation = <<>>
    ELSE /\ previousText = SnapshotText(LastSavedRow)
         /\ Cardinality(WritesOf(LastSavedRow)) = 1
         /\ \A k \in WritesOf(LastSavedRow) :
              /\ previousTranslation = writes[k].val
              /\ previousTranslation = sheet[LastSavedRow][targetIndex]

\* rows " A# 2 ", "abc", "A#7" in full mode: row 1 is translated to "X# 2",
\* the call of row 2 fails, and row 3 is written "X#7" from row 1
C38_Witness ==
    /\ i = 4
    /\ translationMode = "full"
    /\ Row(1) = <<SrcHashNum>> /\ Row(2) = <<SrcPlain>> /\ Row(3) = <<SrcHashSeven>>
    /\ Len(calls) = 2 /\ ~calls[1].err /\ calls[2].err /\ calls[2].row = 2
    /\ Len(writes) = 2
    /\ writes[1].val = <<"X", "#", " ", "2">>
    /\ writes[2] = [row |-> 3, col |-> targetIndex, val |-> <<"X", "#", "7">>]
    /\ previousText = SrcHashSeven

(***************************************************************************)
(* C39. Write frame: processing row i writes at most the single cell       *)
(* (target column, row i); no cell of another row or another column, and   *)
(* so no source-column cell when source and target columns differ, is      *)
(* modified by the driver.                                                 *)
(***************************************************************************)
\* the step leaves every cell other than (row i, target column) as it was
OtherCellsUnchanged ==
    \A r \in DOMAIN sheet : \A c \in DOMAIN sheet[r] :
        (r # i \/ c # targetIndex) => sheet'[r][c] = sheet[r][c]

\* the step writes nothing, or one cell: (row i, target column)
AtMostOwnCellWritten ==
    \/ writes' = writes /\ sheet' = sheet
    \/ /\ Len(writes') = Len(writes) + 1
       /\ SubSeq(writes', 1, Len(writes)) = writes
       /\ Last(writes').row = i /\ Last(writes').col = targetIndex
       /\ sheet' = [sheet EXCEPT ![i][targetIndex] = Last(writes').val]

C39_WriteFrame ==
    [][ /\ DOMAIN sheet' = DOMAIN sheet
        /\ OtherCellsUnchanged
        /\ AtMostOwnCellWritten
        /\ i = 0 => sheet' = sheet ]_vars

\* two columns, rows " A# 2 " and "A#b": both target cells are written, both
\* source cells are as they were read
C39_Witness ==
    /\ i = 3
    /\ sourceIndex # targetIndex
    /\ Row(1) = <<SrcHashNum>> /\ Row(2) = <<SrcHashWord>>
    /\ Len(writes) = 2
    /\ sheet[1][targetIndex] = <<"X", "#", " ", "2">>
    /\ sheet[2][targetIndex] = <<"X", "#", "c">>
    /\ sheet[1][sourceIndex] = SrcHashNum /\ sheet[2][sourceIndex] = SrcHashWord
    /\ sheet[0] = [c \in 0..(Len(HeaderRow) - 1) |-> HeaderRow[c + 1]]

====
